---- MODULE Spec2Model ----
(***************************************************************************)
(* Model of the LA28 schedule ingest (src/src/la28/parsing.py), of venue   *)
(* enrichment (Database.load_osm_venues) and of the query builders          *)
(* (src/src/la28/queries) over the SQLite store declared in                 *)
(* src/src/la28/models.py; of Database.init, reset and get_or_create_*      *)
(* (src/src/la28/database.py), of Session.from_dict (src/read.py) and of    *)
(* the geocoder's request loop and search cache (src/osm.py).               *)
(*                                                                         *)
(* Text cells are sequences of one-character strings, so that splitting,   *)
(* substring search and newline replacement are computed on characters.    *)
(* Stored datetimes are the naive wall-clock value the SQLite DateTime     *)
(* column keeps (minutes since the start of 2028, local to the session's   *)
(* timezone); the timezone label is a separate column.                     *)
(* The surrogate Event.id is not modelled: an event is identified by       *)
(* (code, order_in_session).                                               *)
(***************************************************************************)
EXTENDS Integers, Sequences, FiniteSets, TLC

VARIABLES
    db,      \* committed store: dimension tables, sessions, events
    tx,      \* objects added to the open ORM session, not yet committed
    stats,   \* the stats dict of the running load_from_json call
    pc,      \* position of the running call
    input,   \* rows = json.load(f), when the file content is fixed in advance
    osm,     \* venues_data and the counters of the running load_osm_venues call
    query,   \* the statement a query builder has accumulated
    result,  \* what the last load_osm_venues or fetch call gave its caller
    net      \* the geocoder: its search cache and the running request loop

vars ==
    <<db, tx, stats, pc, input, osm, query, result, net>>

----------------------------------------------------------------------------
(* Literals of parsing.py *)

NL ==
    "\n"
SP ==
    " "
sNotTicketed ==
    <<"N","o","t"," ","T","i","c","k","e","t","e","d">>
sTBD ==
    <<"T","B","D">>
sCTmark ==
    <<"(","C","T",")">>
sAndOr ==
    <<"a","n","d","/","o","r">>
sOr ==
    <<"o","r">>
sMen ==
    <<"M","e","n">>
sWomen ==
    <<"W","o","m","e","n">>
sMixed ==
    <<"M","i","x","e","d">>
sFinal ==
    <<"F","i","n","a","l">>
sGoldMedal ==
    <<"G","o","l","d"," ","M","e","d","a","l">>
sFinalB ==
    <<"F","i","n","a","l"," ","B">>
sFinalC ==
    <<"F","i","n","a","l"," ","C">>
sFinalD ==
    <<"F","i","n","a","l"," ","D">>
sBronze ==
    <<"B","r","o","n","z","e">>
sBronzeMedal ==
    <<"B","r","o","n","z","e"," ","M","e","d","a","l">>
sSemifinal ==
    <<"S","e","m","i","f","i","n","a","l">>
sQuarterfinal ==
    <<"Q","u","a","r","t","e","r","f","i","n","a","l">>
sPreliminary ==
    <<"P","r","e","l","i","m","i","n","a","r","y">>
sQualification ==
    <<"Q","u","a","l","i","f","i","c","a","t","i","o","n">>
sHeats ==
    <<"H","e","a","t","s">>
sPool ==
    <<"P","o","o","l">>
sRepechage ==
    <<"R","e","p","e","c","h","a","g","e">>
sNA ==
    <<"N","/","A">>
sMidnight ==
    <<"0","0",":","0","0">>
sEndOfDay ==
    <<"2","3",":","5","9">>
CT ==
    "America/Chicago"
PT ==
    "America/Los_Angeles"

(* Session.session_number: int | None = None; counters are >= 1 once set *)
None ==
    0

----------------------------------------------------------------------------
(* Python str operations, on character sequences *)

(* sub in s *)
Contains(sub, s) ==
    \E i \in 0..(Len(s) - Len(sub)) : SubSeq(s, i + 1, i + Len(sub)) = sub

(* s.split(sep) for a one-character separator *)
RECURSIVE Split(_, _)
Split(s, sep) ==
    IF \E i \in 1..Len(s) : s[i] = sep
    THEN LET i == CHOOSE k \in 1..Len(s) :
                      /\ s[k] = sep
                      /\ \A j \in 1..(k - 1) : s[j] # sep
         IN  <<SubSeq(s, 1, i - 1)>> \o Split(SubSeq(s, i + 1, Len(s)), sep)
    ELSE <<s>>

(* s.replace('\n', ' ') *)
ReplaceNL(s) ==
    [i \in 1..Len(s) |-> IF s[i] = NL THEN SP ELSE s[i]]

Digits ==
    <<"0","1","2","3","4","5","6","7","8","9">>

IsDigit(c) ==
    \E d \in 1..10 : Digits[d] = c

DigitVal(c) ==
    (CHOOSE d \in 1..10 : Digits[d] = c) - 1

IsNumeral(s) ==
    /\ Len(s) >= 1
    /\ \A i \in 1..Len(s) : IsDigit(s[i])

RECURSIVE NumeralVal(_)
NumeralVal(s) ==
    IF Len(s) = 0 THEN 0
    ELSE 10 * NumeralVal(SubSeq(s, 1, Len(s) - 1)) + DigitVal(s[Len(s)])

(* Byte order of the characters that occur in session codes (SQLite BINARY
   collation, Python str comparison) *)
Alphabet ==
    <<" ","(",")","/","0","1","2","3","4","5","6","7","8","9","A","B","C","D","E","F","G","H","I","J","K","L","M","N","O","P","Q","R","S","T","U","V","W","X","Y","Z","a","b","c","d","e","f","g","h","i","j","k","l","m","n","o","p","q","r","s","t","u","v","w","x","y","z">>

Ord(c) ==
    CHOOSE i \in 1..Len(Alphabet) : Alphabet[i] = c

(* a < b on strings: lexicographic, a proper prefix sorts first *)
StrLess(a, b) ==
    \E k \in 1..Len(b) :
        /\ k <= Len(a) + 1
        /\ \A j \in 1..(k - 1) : a[j] = b[j]
        /\ \/ k = Len(a) + 1
           \/ Ord(a[k]) < Ord(b[k])

----------------------------------------------------------------------------
(* Time & date resolution *)

Failed ==
    [ok |-> FALSE, val |-> 0]

Parsed(v) ==
    [ok |-> TRUE, val |-> v]

MonthNames ==
    << <<"J","a","n","u","a","r","y">>,
       <<"F","e","b","r","u","a","r","y">>,
       <<"M","a","r","c","h">>,
       <<"A","p","r","i","l">>,
       <<"M","a","y">>,
       <<"J","u","n","e">>,
       <<"J","u","l","y">>,
       <<"A","u","g","u","s","t">>,
       <<"S","e","p","t","e","m","b","e","r">>,
       <<"O","c","t","o","b","e","r">>,
       <<"N","o","v","e","m","b","e","r">>,
       <<"D","e","c","e","m","b","e","r">> >>

WeekdayNames ==
    { <<"M","o","n","d","a","y">>,
      <<"T","u","e","s","d","a","y">>,
      <<"W","e","d","n","e","s","d","a","y">>,
      <<"T","h","u","r","s","d","a","y">>,
      <<"F","r","i","d","a","y">>,
      <<"S","a","t","u","r","d","a","y">>,
      <<"S","u","n","d","a","y">> }

(* 2028 is a leap year *)
DaysInMonth ==
    <<31, 29, 31, 30, 31, 30, 31, 31, 30, 31, 30, 31>>

RECURSIVE DaysBefore(_)
DaysBefore(m) ==
    IF m = 1 THEN 0 ELSE DaysBefore(m - 1) + DaysInMonth[m - 1]

(* variant: a cell that does not parse is taken as 2028-01-01 *)
ParseDate_Lenient(cell) ==
    Parsed(0)

(* datetime.strptime(cell + " 2028", "%A, %B %d %Y").date(), as the number
   of days since 2028-01-01; the weekday name is matched, not verified *)
ParseDate(cell) ==
    LET parts == Split(cell, SP)
    IN  IF /\ Len(parts) = 3
           /\ Len(parts[1]) >= 1
           /\ parts[1][Len(parts[1])] = ","
           /\ SubSeq(parts[1], 1, Len(parts[1]) - 1) \in WeekdayNames
           /\ \E m \in 1..12 : MonthNames[m] = parts[2]
           /\ IsNumeral(parts[3])
           /\ Len(parts[3]) <= 2
        THEN LET m == CHOOSE k \in 1..12 : MonthNames[k] = parts[2]
                 d == NumeralVal(parts[3])
             IN  IF d >= 1 /\ d <= DaysInMonth[m]
                 THEN Parsed(DaysBefore(m) + d - 1)
                 ELSE Failed
        ELSE Failed

(* the "%H:%M" part of datetime.strptime, as minutes after midnight *)
ParseClock(s) ==
    LET parts == Split(s, ":")
    IN  IF /\ Len(parts) = 2
           /\ IsNumeral(parts[1]) /\ Len(parts[1]) <= 2
           /\ IsNumeral(parts[2]) /\ Len(parts[2]) <= 2
           /\ NumeralVal(parts[1]) <= 23
           /\ NumeralVal(parts[2]) <= 59
        THEN Parsed(60 * NumeralVal(parts[1]) + NumeralVal(parts[2]))
        ELSE Failed

(* int(row["Games Day"]) *)
ParseInt(s) ==
    IF IsNumeral(s) THEN Parsed(NumeralVal(s)) ELSE Failed

(* variant: "TBD" gives the start of the day but no end override *)
_parse_time_cell_NoOverride(s) ==
    LET lines == Split(s, NL)
        is_ct == \E i \in 2..Len(lines) : Contains(sCTmark, lines[i])
    IN  IF lines[1] = sTBD
        THEN [raw |-> sMidnight, override |-> <<>>, is_ct |-> is_ct]
        ELSE [raw |-> lines[1], override |-> <<>>, is_ct |-> is_ct]

(* _parse_time_cell: (line 0 or "00:00", "23:59" or None, is_ct); None is
   the empty sequence, which is falsy like None *)
_parse_time_cell(s) ==
    LET lines == Split(s, NL)
        is_ct == \E i \in 2..Len(lines) : Contains(sCTmark, lines[i])
    IN  IF lines[1] = sTBD
        THEN [raw |-> sMidnight, override |-> sEndOfDay, is_ct |-> is_ct]
        ELSE [raw |-> lines[1], override |-> <<>>, is_ct |-> is_ct]

(* utcoffset of the two zones during the Games (daylight time), in minutes
   to add to local time to get UTC *)
UtcOffset(tz) ==
    IF tz = CT THEN 300 ELSE 420

(* the aware datetime built by strptime(...).replace(tzinfo=tz) *)
MkDateTime(date, minutes, tz) ==
    [wall |-> 1440 * date + minutes, tz |-> tz]

(* the instant an aware datetime denotes, in minutes UTC *)
Instant(dt) ==
    dt.wall + UtcOffset(dt.tz)

(* what the DateTime column keeps of an aware datetime: SQLite stores the
   wall-clock fields and drops tzinfo *)
StoreDateTime(dt) ==
    dt.wall

----------------------------------------------------------------------------
(* Description classifier *)

(* variant: the single-line shortcut is missing, every line is classified
   from its text *)
_parse_event_type_TextOnly(line, session_type, is_single) ==
    IF Contains(sFinal, line) \/ Contains(sGoldMedal, line)
    THEN IF \E x \in {sFinalB, sFinalC, sFinalD} : Contains(x, line)
         THEN sPreliminary
         ELSE sFinal
    ELSE IF Contains(sBronze, line) THEN sBronze
    ELSE IF Contains(sSemifinal, line) THEN sSemifinal
    ELSE IF Contains(sQuarterfinal, line) THEN sQuarterfinal
    ELSE IF \/ Contains(sPreliminary, line) \/ Contains(sQualification, line)
            \/ Contains(sHeats, line) \/ Contains(sPool, line)
    THEN sPreliminary
    ELSE IF Contains(sRepechage, line) THEN sRepechage
    ELSE sNA

(* variant: the B/C/D exception guards only the "Gold Medal" test, so that
   'Final' in line or ('Gold Medal' in line and not any(...)) gives Final *)
_parse_event_type_UnguardedFinal(line, session_type, is_single) ==
    IF is_single THEN ReplaceNL(session_type)
    ELSE IF \/ Contains(sFinal, line)
            \/ /\ Contains(sGoldMedal, line)
               /\ ~\E x \in {sFinalB, sFinalC, sFinalD} : Contains(x, line)
    THEN sFinal
    ELSE IF Contains(sBronze, line) THEN sBronze
    ELSE IF Contains(sSemifinal, line) THEN sSemifinal
    ELSE IF Contains(sQuarterfinal, line) THEN sQuarterfinal
    ELSE IF \/ Contains(sPreliminary, line) \/ Contains(sQualification, line)
            \/ Contains(sHeats, line) \/ Contains(sPool, line)
    THEN sPreliminary
    ELSE IF Contains(sRepechage, line) THEN sRepechage
    ELSE sNA

(* variant: the B/C/D exception only removes the Final match, and the
   tests after it still apply to the line *)
_parse_event_type_ExclusionFallsThrough(line, session_type, is_single) ==
    IF is_single THEN ReplaceNL(session_type)
    ELSE IF /\ Contains(sFinal, line) \/ Contains(sGoldMedal, line)
            /\ ~\E x \in {sFinalB, sFinalC, sFinalD} : Contains(x, line)
    THEN sFinal
    ELSE IF Contains(sBronze, line) \/ Contains(sBronzeMedal, line)
    THEN sBronze
    ELSE IF Contains(sSemifinal, line)
    THEN sSemifinal
    ELSE IF Contains(sQuarterfinal, line)
    THEN sQuarterfinal
    ELSE IF \/ Contains(sPreliminary, line) \/ Contains(sQualification, line)
            \/ Contains(sHeats, line) \/ Contains(sPool, line)
    THEN sPreliminary
    ELSE IF Contains(sRepechage, line)
    THEN sRepechage
    ELSE sNA

_parse_event_type(line, session_type, is_single) ==
    IF is_single THEN ReplaceNL(session_type)
    ELSE IF Contains(sFinal, line) \/ Contains(sGoldMedal, line)
    THEN IF \E x \in {sFinalB, sFinalC, sFinalD} : Contains(x, line)
         THEN sPreliminary
         ELSE sFinal
    ELSE IF Contains(sBronze, line) \/ Contains(sBronzeMedal, line)
    THEN sBronze
    ELSE IF Contains(sSemifinal, line)
    THEN sSemifinal
    ELSE IF Contains(sQuarterfinal, line)
    THEN sQuarterfinal
    ELSE IF \/ Contains(sPreliminary, line) \/ Contains(sQualification, line)
            \/ Contains(sHeats, line) \/ Contains(sPool, line)
    THEN sPreliminary
    ELSE IF Contains(sRepechage, line)
    THEN sRepechage
    ELSE sNA

(* variant: the Men and Women tests do not exclude the other word *)
_parse_sex_NoExclusion(line) ==
    IF Contains(sAndOr, line) THEN "and/or"
    ELSE IF Contains(sOr, line) THEN "or"
    ELSE IF Contains(sMen, line) THEN "Men"
    ELSE IF Contains(sWomen, line) THEN "Women"
    ELSE IF Contains(sMixed, line) THEN "Mixed"
    ELSE "and/or"

_parse_sex(line) ==
    IF Contains(sAndOr, line) THEN "and/or"
    ELSE IF Contains(sOr, line) THEN "or"
    ELSE IF Contains(sMen, line) /\ ~Contains(sWomen, line) THEN "Men"
    ELSE IF Contains(sWomen, line) /\ ~Contains(sMen, line) THEN "Women"
    ELSE IF Contains(sMixed, line) THEN "Mixed"
    ELSE "and/or"

----------------------------------------------------------------------------
(* Row normalizer: load_from_json, body of the row loop *)

(* variant: the sentinel line is recognised but not removed *)
DescLines_SentinelKept(desc) ==
    Split(desc, NL)

(* desc.split("\n") with the optional leading "Not Ticketed" line removed *)
DescLines(desc) ==
    LET desc_lines == Split(desc, NL)
    IN  IF desc_lines[1] = sNotTicketed
        THEN SubSeq(desc_lines, 2, Len(desc_lines))
        ELSE desc_lines

NotTicketed(desc) ==
    Split(desc, NL)[1] = sNotTicketed

(* variant: order_in_session = i, the 0-based index of enumerate *)
MkEvent_ZeroBased(code, desc_lines, session_type, i) ==
    [ code               |-> code,
      sex                |-> _parse_sex(desc_lines[i]),
      description        |-> desc_lines[i],
      type               |-> _parse_event_type(desc_lines[i], session_type,
                                               Len(desc_lines) = 1),
      order_in_session   |-> i - 1,
      total_in_session   |-> Len(desc_lines),
      event_number       |-> None,
      total_events       |-> None,
      sport_event_number |-> None,
      total_sport_events |-> None ]

(* Event(...) for line i of the block *)
MkEvent(code, desc_lines, session_type, i) ==
    [ code               |-> code,
      sex                |-> _parse_sex(desc_lines[i]),
      description        |-> desc_lines[i],
      type               |-> _parse_event_type(desc_lines[i], session_type,
                                               Len(desc_lines) = 1),
      order_in_session   |-> i,
      total_in_session   |-> Len(desc_lines),
      event_number       |-> None,
      total_events       |-> None,
      sport_event_number |-> None,
      total_sport_events |-> None ]

(* the keys the loop body reads with row[...]; a missing one is a KeyError *)
RowFields ==
    { "Date", "GamesDay", "Zone", "Venue", "Sport", "SessionCode",
      "SessionType", "StartTime", "EndTime", "SessionDescription" }

(* everything the loop body derives from one row before touching the store *)
ParseRow(row) ==
    IF ~(RowFields \subseteq DOMAIN row) THEN [ ok |-> FALSE ] ELSE
    LET date       == ParseDate(row.Date)
        start_cell == _parse_time_cell(row.StartTime)
        end_cell   == _parse_time_cell(row.EndTime)
        tz         == IF start_cell.is_ct THEN CT ELSE PT
        start_min  == ParseClock(start_cell.raw)
        end_min    == IF Len(start_cell.override) > 0
                      THEN ParseClock(start_cell.override)
                      ELSE ParseClock(end_cell.raw)
        day_num    == ParseInt(row.GamesDay)
        sport_name == ReplaceNL(row.Sport)
        stype      == ReplaceNL(row.SessionType)
        desc_lines == DescLines(row.SessionDescription)
    IN  IF date.ok /\ start_min.ok /\ end_min.ok /\ day_num.ok
        THEN [ ok      |-> TRUE,
               is_ct   |-> start_cell.is_ct,
               zone    |-> row.Zone,
               venue   |-> row.Venue,
               sport   |-> sport_name,
               day     |-> day_num.val,
               session |->
                 [ code                 |-> row.SessionCode,
                   day                  |-> day_num.val,
                   sport                |-> sport_name,
                   venue                |-> row.Venue,
                   type                 |-> stype,
                   starts_at            |-> MkDateTime(date.val, start_min.val, tz),
                   ends_at              |-> MkDateTime(date.val, end_min.val, tz),
                   timezone             |-> tz,
                   ticketed             |-> ~NotTicketed(row.SessionDescription),
                   session_number       |-> None,
                   total_sessions       |-> None,
                   sport_session_number |-> None,
                   total_sport_sessions |-> None ],
               events  |-> { MkEvent(row.SessionCode, desc_lines, stype, i) :
                                i \in 1..Len(desc_lines) } ]
        ELSE [ ok |-> FALSE ]

----------------------------------------------------------------------------
(* Numbering pass: _compute_numbering *)

(* ORDER BY session.starts_at, session.code over the stored columns *)
SessionKeyLess(a, b) ==
    \/ a.starts_at < b.starts_at
    \/ a.starts_at = b.starts_at /\ StrLess(a.code, b.code)

RECURSIVE SortSessions(_)
SortSessions(S) ==
    IF S = {} THEN <<>>
    ELSE LET m == CHOOSE x \in S : \A y \in S \ {x} : SessionKeyLess(x, y)
         IN  <<m>> \o SortSessions(S \ {m})

(* dict.get(key, 0) *)
Get(counts, key) ==
    IF key \in DOMAIN counts THEN counts[key] ELSE 0

(* counts[key] = counts.get(key, 0) + 1 *)
Bump(counts, key) ==
    [k \in DOMAIN counts \cup {key} |->
        IF k = key THEN Get(counts, key) + 1 ELSE counts[k]]

EmptyDict ==
    [k \in {} |-> 0]

(* variant: the totals are not keyed by sport, every sport gets the count of
   all sessions *)
RECURSIVE SessionTotals_AllSessions(_, _, _)
SessionTotals_AllSessions(sorted, i, totals) ==
    IF i > Len(sorted) THEN totals
    ELSE SessionTotals_AllSessions(
             sorted, i + 1,
             [k \in DOMAIN totals \cup {sorted[i].sport} |-> Len(sorted)])

(* first loop: sport_session_totals *)
RECURSIVE SessionTotals(_, _, _)
SessionTotals(sorted, i, totals) ==
    IF i > Len(sorted) THEN totals
    ELSE SessionTotals(sorted, i + 1, Bump(totals, sorted[i].sport))

(* second loop: for i, sess in enumerate(sessions, 1) *)
RECURSIVE NumberSessionsLoop(_, _, _, _, _)
NumberSessionsLoop(sorted, i, counts, totals, acc) ==
    IF i > Len(sorted) THEN acc
    ELSE LET sess    == sorted[i]
             counts2 == Bump(counts, sess.sport)
             sess2   == [sess EXCEPT
                           !.session_number       = i,
                           !.total_sessions       = Len(sorted),
                           !.sport_session_number = counts2[sess.sport],
                           !.total_sport_sessions = totals[sess.sport]]
         IN  NumberSessionsLoop(sorted, i + 1, counts2, totals, acc \cup {sess2})

(* variant: enumerate(sessions) without the start value 1 *)
NumberedSessions_ZeroBased(S) ==
    LET sorted == SortSessions(S)
    IN  { [x EXCEPT !.session_number = @ - 1] :
            x \in NumberSessionsLoop(sorted, 1, EmptyDict,
                                     SessionTotals(sorted, 1, EmptyDict), {}) }

(* variant: an incremental pass that numbers only the sessions that have no
   number yet, after the ones that have *)
NumberedSessions_Incremental(S) ==
    LET old    == { x \in S : x.session_number # None }
        sorted == SortSessions(S \ old)
        added  == NumberSessionsLoop(sorted, 1, EmptyDict,
                                     SessionTotals(sorted, 1, EmptyDict), {})
    IN  old \cup { [x EXCEPT !.session_number = @ + Cardinality(old)] :
                     x \in added }

NumberedSessions(S) ==
    LET sorted == SortSessions(S)
    IN  NumberSessionsLoop(sorted, 1, EmptyDict,
                           SessionTotals(sorted, 1, EmptyDict), {})

(* s.get(Session, code) *)
GetSession(S, code) ==
    CHOOSE x \in S : x.code = code

HasSession(S, code) ==
    \E x \in S : x.code = code

(* variant: ORDER BY event.order_in_session, session.starts_at, session.code *)
EventKeyLess_OrderFirst(S, a, b) ==
    LET sa == GetSession(S, a.code)
        sb == GetSession(S, b.code)
    IN  \/ a.order_in_session < b.order_in_session
        \/ a.order_in_session = b.order_in_session /\ SessionKeyLess(sa, sb)

(* ORDER BY session.starts_at, session.code, event.order_in_session over
   event JOIN session *)
EventKeyLess(S, a, b) ==
    LET sa == GetSession(S, a.code)
        sb == GetSession(S, b.code)
    IN  \/ SessionKeyLess(sa, sb)
        \/ a.code = b.code /\ a.order_in_session < b.order_in_session

RECURSIVE SortEvents(_, _)
SortEvents(S, E) ==
    IF E = {} THEN <<>>
    ELSE LET m == CHOOSE x \in E : \A y \in E \ {x} : EventKeyLess(S, x, y)
         IN  <<m>> \o SortEvents(S, E \ {m})

RECURSIVE EventTotals(_, _, _, _)
EventTotals(S, sorted, i, totals) ==
    IF i > Len(sorted) THEN totals
    ELSE EventTotals(S, sorted, i + 1,
                     IF HasSession(S, sorted[i].code)
                     THEN Bump(totals, GetSession(S, sorted[i].code).sport)
                     ELSE totals)

RECURSIVE NumberEventsLoop(_, _, _, _, _, _)
NumberEventsLoop(S, sorted, i, counts, totals, acc) ==
    IF i > Len(sorted) THEN acc
    ELSE LET evt     == sorted[i]
             sport   == GetSession(S, evt.code).sport
             found   == HasSession(S, evt.code)
             counts2 == IF found THEN Bump(counts, sport) ELSE counts
             evt1    == [evt EXCEPT !.event_number = i,
                                    !.total_events = Len(sorted)]
             evt2    == IF found
                        THEN [evt1 EXCEPT
                                !.sport_event_number = counts2[sport],
                                !.total_sport_events = totals[sport]]
                        ELSE evt1
         IN  NumberEventsLoop(S, sorted, i + 1, counts2, totals, acc \cup {evt2})

(* the inner join keeps only events whose session exists; the others are
   not selected and so not renumbered *)
NumberedEvents(S, E) ==
    LET joined == {e \in E : HasSession(S, e.code)}
        sorted == SortEvents(S, joined)
    IN  NumberEventsLoop(S, sorted, 1, EmptyDict,
                         EventTotals(S, sorted, 1, EmptyDict), {})
          \cup (E \ joined)

----------------------------------------------------------------------------
(* Store and the load_from_json / _compute_numbering calls *)

EmptyTables ==
    [ zones    |-> {},
      venues   |-> {},
      sports   |-> {},
      days     |-> {},
      links    |-> {},
      sessions |-> {},
      events   |-> {},
      event_types |-> {} ]

(* models.get_default_event_types() *)
get_default_event_types ==
    << [ type |-> sFinal,        rank |-> 1 ],
       [ type |-> sBronze,       rank |-> 2 ],
       [ type |-> sSemifinal,    rank |-> 3 ],
       [ type |-> sQuarterfinal, rank |-> 4 ],
       [ type |-> sRepechage,    rank |-> 5 ],
       [ type |-> sPreliminary,  rank |-> 6 ],
       [ type |-> sNA,           rank |-> 99 ] >>

(* variant: the rows are added without their rank, which then takes the
   column default *)
_seed_event_types_DefaultRank(d) ==
    LET defaults == get_default_event_types
        missing  == { i \in 1..Len(defaults) :
                        ~\E t \in d.event_types : t.type = defaults[i].type }
    IN  [ d EXCEPT !.event_types =
            @ \cup { [ type |-> defaults[i].type, rank |-> 0 ] :
                       i \in missing } ]

(* Database._seed_event_types: every default label that s.get does not find
   is added with its rank, then one commit *)
_seed_event_types(d) ==
    LET defaults == get_default_event_types
        missing  == { i \in 1..Len(defaults) :
                        ~\E t \in d.event_types : t.type = defaults[i].type }
    IN  [ d EXCEPT !.event_types =
            @ \cup { [ type |-> defaults[i].type, rank |-> defaults[i].rank ] :
                       i \in missing } ]

(* the store after Database.init() on a new database file *)
FreshStore ==
    _seed_event_types(EmptyTables)

(* None in a text column or a text field of a JSON object *)
NullText ==
    "None"

(* no load_osm_venues call is running *)
NoCall ==
    [ data |-> <<>>, i |-> 0, updated |-> 0, skipped |-> 0, not_found |-> 0,
      calls |-> 0 ]

(* no call has returned anything yet *)
NoResult ==
    [ kind |-> "none" ]

(* no query builder has been constructed *)
NoQuery ==
    [ kind |-> "none", wheres |-> <<>>, joins |-> <<>>, order_by |-> <<>>,
      limit |-> None ]

(* the key of no call *)
NoKey ==
    [ query |-> "", limit |-> 0 ]

(* no nominatim_search call has been made: _SEARCH_CACHE is empty.
   key, attempt, waits and polite describe the running or last call: its
   cache key, the HTTP requests it has sent, the backoff sleeps and the
   sleep_polite calls it has completed; fetched lists the keys of the
   requests that returned, in order, over all calls. *)
NoNet ==
    [ cache   |-> {},
      calls   |-> 0,
      key     |-> NoKey,
      attempt |-> 0,
      waits   |-> 0,
      polite  |-> 0,
      fetched |-> <<>> ]

(* stats = {"days": set(), "zones": set(), ..., "sessions": 0, "events": 0} *)
EmptyStats ==
    [ days     |-> {},
      zones    |-> {},
      venues   |-> {},
      sports   |-> {},
      sessions |-> 0,
      events   |-> 0 ]

(* a flush writes an aware datetime into the DateTime column *)
StoreSession(sess) ==
    [sess EXCEPT !.starts_at = StoreDateTime(@), !.ends_at = StoreDateTime(@)]

(* s.commit(): everything added to the ORM session becomes store content *)
Committed(d, t) ==
    [ zones    |-> d.zones \cup t.zones,
      venues   |-> d.venues \cup t.venues,
      sports   |-> d.sports \cup t.sports,
      days     |-> d.days \cup t.days,
      links    |-> d.links \cup t.links,
      sessions |-> d.sessions \cup {StoreSession(x) : x \in t.sessions},
      events   |-> d.events \cup t.events,
      event_types |-> d.event_types \cup t.event_types ]

(* with Path(src).open(...): rows = json.load(f); stats = {...};
   with db.session() as s: *)
BeginLoad ==
    /\ pc = "idle"
    /\ pc' = "loading"
    /\ tx' = EmptyTables
    /\ stats' = EmptyStats
    /\ UNCHANGED <<db, input, osm, query, result, net>>

(* variant: the venue is added for every row, without the stats and
   s.get tests *)
Ingest_VenueAlwaysAdded(row) ==
    LET p == ParseRow(row)
    IN  IF \/ ~p.ok
           \/ HasSession(db.sessions \cup tx.sessions, row.SessionCode)
        THEN /\ pc' = "idle"
             /\ tx' = EmptyTables
             /\ stats' = EmptyStats
             /\ UNCHANGED db
        ELSE LET new_zone  == /\ p.zone \notin stats.zones
                              /\ p.zone \notin db.zones \cup tx.zones
                 new_venue == TRUE
                 new_sport == /\ p.sport \notin stats.sports
                              /\ p.sport \notin db.sports \cup tx.sports
                 new_day   == /\ p.day \notin stats.days
                              /\ p.day \notin db.days \cup tx.days
                 new_link  == ~\E l \in db.links \cup tx.links :
                                  l.sport = p.sport /\ l.venue = p.venue
             IN  /\ tx' =
                      [ zones    |-> IF new_zone THEN tx.zones \cup {p.zone}
                                     ELSE tx.zones,
                        venues   |-> IF new_venue
                                     THEN tx.venues \cup
                                          {[ venue     |-> p.venue,
                                             zone      |-> p.zone,
                                             address   |-> NullText,
                                             capacity  |-> None,
                                             latitude  |-> None,
                                             longitude |-> None,
                                             in_okc    |-> p.is_ct ]}
                                     ELSE tx.venues,
                        sports   |-> IF new_sport THEN tx.sports \cup {p.sport}
                                     ELSE tx.sports,
                        days     |-> IF new_day THEN tx.days \cup {p.day}
                                     ELSE tx.days,
                        links    |-> IF new_link
                                     THEN tx.links \cup
                                          {[ sport      |-> p.sport,
                                             venue      |-> p.venue,
                                             is_primary |-> FALSE ]}
                                     ELSE tx.links,
                        sessions |-> tx.sessions \cup {p.session},
                        events   |-> tx.events \cup p.events,
                        event_types |-> tx.event_types ]
                 /\ stats' =
                      [ days     |-> stats.days \cup {p.day},
                        zones    |-> stats.zones \cup {p.zone},
                        venues   |-> stats.venues \cup {p.venue},
                        sports   |-> stats.sports \cup {p.sport},
                        sessions |-> stats.sessions + 1,
                        events   |-> stats.events + Cardinality(p.events) ]
                 /\ pc' = "loading"
                 /\ UNCHANGED db

(* variant: every row naming a venue replaces the pending Venue *)
Ingest_VenueOverwritten(row) ==
    LET p == ParseRow(row)
    IN  IF \/ ~p.ok
           \/ HasSession(db.sessions \cup tx.sessions, row.SessionCode)
        THEN /\ pc' = "idle"
             /\ tx' = EmptyTables
             /\ stats' = EmptyStats
             /\ UNCHANGED db
        ELSE LET new_zone  == /\ p.zone \notin stats.zones
                              /\ p.zone \notin db.zones \cup tx.zones
                 new_venue == /\ p.venue \notin stats.venues
                              /\ ~\E v \in db.venues \cup tx.venues :
                                      v.venue = p.venue
                 new_sport == /\ p.sport \notin stats.sports
                              /\ p.sport \notin db.sports \cup tx.sports
                 new_day   == /\ p.day \notin stats.days
                              /\ p.day \notin db.days \cup tx.days
                 new_link  == ~\E l \in db.links \cup tx.links :
                                  l.sport = p.sport /\ l.venue = p.venue
             IN  /\ tx' =
                      [ zones    |-> IF new_zone THEN tx.zones \cup {p.zone}
                                     ELSE tx.zones,
                        venues   |-> { v \in tx.venues :
                                         v.venue # p.venue } \cup
                                     {[ venue     |-> p.venue,
                                        zone      |-> p.zone,
                                        address   |-> NullText,
                                        capacity  |-> None,
                                        latitude  |-> None,
                                        longitude |-> None,
                                        in_okc    |-> p.is_ct ]},
                        sports   |-> IF new_sport THEN tx.sports \cup {p.sport}
                                     ELSE tx.sports,
                        days     |-> IF new_day THEN tx.days \cup {p.day}
                                     ELSE tx.days,
                        links    |-> IF new_link
                                     THEN tx.links \cup
                                          {[ sport      |-> p.sport,
                                             venue      |-> p.venue,
                                             is_primary |-> FALSE ]}
                                     ELSE tx.links,
                        sessions |-> tx.sessions \cup {p.session},
                        events   |-> tx.events \cup p.events,
                        event_types |-> tx.event_types ]
                 /\ stats' =
                      [ days     |-> stats.days \cup {p.day},
                        zones    |-> stats.zones \cup {p.zone},
                        venues   |-> stats.venues \cup {p.venue},
                        sports   |-> stats.sports \cup {p.sport},
                        sessions |-> stats.sessions + 1,
                        events   |-> stats.events + Cardinality(p.events) ]
                 /\ pc' = "loading"
                 /\ UNCHANGED db

(* one pass of "for row in rows".  A row that does not parse, or whose
   Session Code is already a primary key of session (in the store or in this
   transaction), raises; the exception leaves the with block, the ORM
   session is closed and nothing of this call is committed. *)
Ingest(row) ==
    LET p == ParseRow(row)
    IN  IF \/ ~p.ok
           \/ HasSession(db.sessions \cup tx.sessions, row.SessionCode)
        THEN /\ pc' = "idle"
             /\ tx' = EmptyTables
             /\ stats' = EmptyStats
             /\ UNCHANGED db
        ELSE LET new_zone  == /\ p.zone \notin stats.zones
                              /\ p.zone \notin db.zones \cup tx.zones
                 new_venue == /\ p.venue \notin stats.venues
                              /\ ~\E v \in db.venues \cup tx.venues :
                                      v.venue = p.venue
                 new_sport == /\ p.sport \notin stats.sports
                              /\ p.sport \notin db.sports \cup tx.sports
                 new_day   == /\ p.day \notin stats.days
                              /\ p.day \notin db.days \cup tx.days
                 new_link  == ~\E l \in db.links \cup tx.links :
                                  l.sport = p.sport /\ l.venue = p.venue
             IN  /\ tx' =
                      [ zones    |-> IF new_zone THEN tx.zones \cup {p.zone}
                                     ELSE tx.zones,
                        venues   |-> IF new_venue
                                     THEN tx.venues \cup
                                          {[ venue     |-> p.venue,
                                             zone      |-> p.zone,
                                             address   |-> NullText,
                                             capacity  |-> None,
                                             latitude  |-> None,
                                             longitude |-> None,
                                             in_okc    |-> p.is_ct ]}
                                     ELSE tx.venues,
                        sports   |-> IF new_sport THEN tx.sports \cup {p.sport}
                                     ELSE tx.sports,
                        days     |-> IF new_day THEN tx.days \cup {p.day}
                                     ELSE tx.days,
                        links    |-> IF new_link
                                     THEN tx.links \cup
                                          {[ sport      |-> p.sport,
                                             venue      |-> p.venue,
                                             is_primary |-> FALSE ]}
                                     ELSE tx.links,
                        sessions |-> tx.sessions \cup {p.session},
                        events   |-> tx.events \cup p.events,
                        event_types |-> tx.event_types ]
                 /\ stats' =
                      [ days     |-> stats.days \cup {p.day},
                        zones    |-> stats.zones \cup {p.zone},
                        venues   |-> stats.venues \cup {p.venue},
                        sports   |-> stats.sports \cup {p.sport},
                        sessions |-> stats.sessions + 1,
                        events   |-> stats.events + Cardinality(p.events) ]
                 /\ pc' = "loading"
                 /\ UNCHANGED db

(* s.commit() at the end of the with block *)
LoadCommit ==
    /\ pc = "loading"
    /\ input # <<>> => stats.sessions = Len(input)
    /\ db' = Committed(db, tx)
    /\ tx' = EmptyTables
    /\ pc' = "numbering_sessions"
    /\ UNCHANGED <<stats, input, osm, query, result, net>>

(* _compute_numbering(db) called on its own *)
ComputeNumbering ==
    /\ pc = "idle"
    /\ pc' = "numbering_sessions"
    /\ UNCHANGED <<db, tx, stats, input, osm, query, result, net>>

(* _compute_numbering up to its first s.commit() *)
NumberSessions ==
    /\ pc = "numbering_sessions"
    /\ db' = [db EXCEPT !.sessions = NumberedSessions(db.sessions)]
    /\ pc' = "numbering_events"
    /\ UNCHANGED <<tx, stats, input, osm, query, result, net>>

(* _compute_numbering from the event query to its second s.commit(), and
   the return of the call *)
NumberEvents ==
    /\ pc = "numbering_events"
    /\ db' = [db EXCEPT !.events = NumberedEvents(db.sessions, db.events)]
    /\ pc' = "idle"
    /\ stats' = EmptyStats
    /\ UNCHANGED <<tx, input, osm, query, result, net>>

----------------------------------------------------------------------------
(* Inputs *)

MkRow(code, sport, start, desc, stype) ==
    LET in_okc == Contains(sCTmark, start)
    IN  [ Date               |-> <<"F","r","i","d","a","y",","," ","J","u","l","y"," ","1","4">>,
          GamesDay           |-> <<"1">>,
          Zone               |-> IF in_okc THEN "OKC" ELSE "Long Beach",
          Venue              |-> IF in_okc THEN "OKC Softball Park"
                                 ELSE "Belmont Shore",
          Sport              |-> sport,
          SessionCode        |-> code,
          SessionType        |-> stype,
          StartTime          |-> start,
          EndTime            |-> <<"1","1",":","0","0">>,
          SessionDescription |-> desc ]

Codes ==
    { <<"A","1">>, <<"A","1","0">>, <<"A","2">> }

SportCells ==
    { <<"G","o","l","f">>, <<"W","a","t","e","r","\n","P","o","l","o">> }

StartCells ==
    { <<"0","9",":","0","0">>,
      <<"1","0",":","0","0">>,
      <<"1","0",":","0","0","\n","(","C","T",")">> }

DescCells ==
    { <<"M","e","n","'","s"," ","F","i","n","a","l">>,
      <<"N","o","t"," ","T","i","c","k","e","t","e","d","\n","H","e","a","t","s","\n","W","o","m","e","n","'","s"," ","F","i","n","a","l">> }

RowPool ==
    { MkRow(code, sport, start, desc, sFinal) :
        code \in Codes, sport \in SportCells,
        start \in StartCells, desc \in DescCells }

(* most rows one load_from_json call reads *)
MaxRows ==
    2

(* the next row of a file whose content is not fixed in advance *)
ReadRow ==
    /\ pc = "loading"
    /\ input = <<>>
    /\ stats.sessions < MaxRows
    /\ \E row \in RowPool : Ingest(row)
    /\ UNCHANGED <<input, osm, query, result, net>>

Init ==
    /\ db = FreshStore
    /\ tx = EmptyTables
    /\ stats = EmptyStats
    /\ pc = "idle"
    /\ input = <<>>
    /\ osm = NoCall
    /\ query = NoQuery
    /\ result = NoResult
    /\ net = NoNet

Next ==
    \/ BeginLoad
    \/ ReadRow
    \/ LoadCommit
    \/ ComputeNumbering
    \/ NumberSessions
    \/ NumberEvents

Spec ==
    Init /\ [][Next]_vars

----------------------------------------------------------------------------
(* One-row files with systematically built description blocks, loaded into
   a fresh store *)

TypeFrags ==
    { <<"F","i","n","a","l"," ">>,
      <<"F","i","n","a","l"," ","B"," ">>,
      <<"F","i","n","a","l"," ","C"," ">>,
      <<"F","i","n","a","l"," ","D"," ">>,
      <<"G","o","l","d"," ","M","e","d","a","l"," ">>,
      <<"B","r","o","n","z","e"," ">> }

SexFrags ==
    { <<"M","e","n","'","s"," ">>,
      <<"W","o","m","e","n","'","s"," ">>,
      <<"M","i","x","e","d"," ">>,
      <<"a","n","d","/","o","r"," ">>,
      <<"F","l","o","o","r"," ">> }

TypeCells ==
    { sPreliminary, <<"G","o","l","d","\n","M","e","d","a","l">> }

(* most fragments in a line built from TypeFrags *)
MaxFrags ==
    2

(* most fragments in a line built from SexFrags *)
MaxSexFrags ==
    3

(* most lines in a block, the sentinel line not counted *)
MaxLines ==
    3

(* all concatenations of at most n fragments *)
RECURSIVE Concats(_, _)
Concats(frags, n) ==
    IF n = 0 THEN { <<>> }
    ELSE LET shorter == Concats(frags, n - 1)
         IN  shorter \cup { l \o f : l \in shorter, f \in frags }

TypeLines ==
    Concats(TypeFrags, MaxFrags)

SexLines ==
    Concats(SexFrags, MaxSexFrags)
      \cup { <<"M","e","n","'","s"," ","S","i","n","g","l","e","s">>,
             <<"M","i","x","e","d"," ","D","o","u","b","l","e","s">> }

Filler(n) ==
    [i \in 1..n |-> sHeats]

(* "\n".join(lines) *)
RECURSIVE Join(_)
Join(lines) ==
    IF Len(lines) = 0 THEN <<>>
    ELSE IF Len(lines) = 1 THEN lines[1]
    ELSE lines[1] \o <<NL>> \o Join(Tail(lines))

(* numbers of filler lines before and after the line of interest *)
Shapes ==
    { sh \in (0..MaxLines) \X (0..MaxLines) : sh[1] + sh[2] + 1 <= MaxLines }

(* a line of TypeLines at any position among filler lines, or a line of
   SexLines alone, with or without the sentinel line in front; and the
   sentinel line alone *)
BlockPool ==
    { Join(prefix \o Filler(sh[1]) \o <<line>> \o Filler(sh[2])) :
        prefix \in { <<>>, <<sNotTicketed>> },
        line \in TypeLines,
        sh \in Shapes }
      \cup { Join(prefix \o <<line>>) :
               prefix \in { <<>>, <<sNotTicketed>> },
               line \in SexLines }
      \cup { sNotTicketed }

BlockRows ==
    { MkRow(<<"A","1">>, <<"G","o","l","f">>, <<"0","9",":","0","0">>,
            desc, stype) :
        desc \in BlockPool,
        stype \in TypeCells }

(* the next row of a file whose content is fixed *)
ReadInput ==
    /\ pc = "loading"
    /\ stats.sessions < Len(input)
    /\ Ingest(input[stats.sessions + 1])
    /\ UNCHANGED <<input, osm, query, result, net>>

InitBlock ==
    /\ db = FreshStore
    /\ tx = EmptyTables
    /\ stats = EmptyStats
    /\ pc = "loading"
    /\ input \in { <<row>> : row \in BlockRows }
    /\ osm = NoCall
    /\ query = NoQuery
    /\ result = NoResult
    /\ net = NoNet

NextBlock ==
    \/ ReadInput
    \/ LoadCommit
    \/ NumberSessions
    \/ NumberEvents

SpecBlock ==
    InitBlock /\ [][NextBlock]_vars

----------------------------------------------------------------------------
(* Properties of the numbering pass, checked under Spec *)

Owner(e) ==
    CHOOSE x \in db.sessions : x.code = e.code

SessionsOfSport(sp) ==
    { x \in db.sessions : x.sport = sp }

EventsOfSport(sp) ==
    { e \in db.events : Owner(e).sport = sp }

EventsOfSession(code) ==
    { e \in db.events : e.code = code }

(* the instant at which a stored session starts: its wall-clock value read
   in the timezone of its timezone column *)
StartInstant(x) ==
    x.starts_at + UtcOffset(x.timezone)

(* C1: when load_from_json has completed, the session_number values of the
   N stored sessions are exactly 1..N without repeats, and total_sessions is
   N on every session. *)
C1_SessionNumbersAreOneToN ==
    pc = "idle" =>
        LET N == Cardinality(db.sessions)
        IN  /\ { x.session_number : x \in db.sessions } = 1..N
            /\ \A a, b \in db.sessions :
                   a # b => a.session_number # b.session_number
            /\ \A x \in db.sessions : x.total_sessions = N

C1_Witness ==
    /\ pc = "idle"
    /\ Cardinality(db.sessions) = 3
    /\ \E x \in db.sessions : x.session_number = 3

(* C2, as claimed: after the numbering pass, session numbers order the
   sessions by (start instant, code), also across the two timezones. *)
C2_OrderedByStartInstant ==
    pc = "idle" =>
        \A a, b \in db.sessions :
            (a.session_number < b.session_number) <=>
                \/ StartInstant(a) < StartInstant(b)
                \/ /\ StartInstant(a) = StartInstant(b)
                   /\ StrLess(a.code, b.code)

(* C3: after the numbering pass, the sport_session_number values of a sport
   with k sessions are exactly 1..k, they increase with session_number, and
   total_sport_sessions is k on each of them. *)
C3_SportSessionNumbers ==
    pc = "idle" =>
        \A x \in db.sessions :
            LET mine == SessionsOfSport(x.sport)
                k    == Cardinality(mine)
            IN  /\ { y.sport_session_number : y \in mine } = 1..k
                /\ x.total_sport_sessions = k
                /\ \A y \in mine :
                       (x.sport_session_number < y.sport_session_number)
                           <=> (x.session_number < y.session_number)

C3_Witness ==
    /\ pc = "idle"
    /\ \E x, y \in db.sessions :
           /\ x.sport # y.sport
           /\ x.session_number = 3
           /\ x.sport_session_number = 2
           /\ x.total_sport_sessions = 2
           /\ y.session_number = 2

(* C4: after the numbering pass over M events, event_number is exactly 1..M
   in ascending order of (owning session's stored start, session code,
   order_in_session), total_events is M, the per-sport counters do the same
   within the owning session's sport, and the events of one session have
   consecutive event numbers in order_in_session order. *)
C4_EventNumbers ==
    pc = "idle" =>
        LET M == Cardinality(db.events)
        IN  /\ { e.event_number : e \in db.events } = 1..M
            /\ \A e \in db.events : e.total_events = M
            /\ \A e, f \in db.events :
                   (e.event_number < f.event_number) <=>
                       \/ Owner(e).starts_at < Owner(f).starts_at
                       \/ /\ Owner(e).starts_at = Owner(f).starts_at
                          /\ StrLess(e.code, f.code)
                       \/ /\ e.code = f.code
                          /\ e.order_in_session < f.order_in_session
            /\ \A e \in db.events :
                   LET mine == EventsOfSport(Owner(e).sport)
                       m    == Cardinality(mine)
                   IN  /\ { f.sport_event_number : f \in mine } = 1..m
                       /\ e.total_sport_events = m
                       /\ \A f \in mine :
                              (e.sport_event_number < f.sport_event_number)
                                  <=> (e.event_number < f.event_number)
            /\ \A e, f \in db.events :
                   e.code = f.code =>
                       f.event_number - e.event_number
                           = f.order_in_session - e.order_in_session

C4_Witness ==
    /\ pc = "idle"
    /\ \E e, f \in db.events :
           /\ Owner(e).sport # Owner(f).sport
           /\ e.order_in_session = 2
           /\ f.event_number < e.event_number
           /\ e.sport_event_number < e.event_number
           /\ \E g \in db.events : g.event_number > e.event_number

StripSession(x) ==
    [x EXCEPT !.session_number = None, !.total_sessions = None,
              !.sport_session_number = None, !.total_sport_sessions = None]

StripEvent(e) ==
    [e EXCEPT !.event_number = None, !.total_events = None,
              !.sport_event_number = None, !.total_sport_events = None]

(* C5: what a run of the numbering pass leaves in the store is what the pass
   computes from the sessions and events with all eight counters erased, and
   a further run on that store changes no counter. *)
C5_FullRecomputeAndIdempotent ==
    [][ (pc = "numbering_events" /\ pc' = "idle") =>
            LET fresh_s == NumberedSessions(
                               { StripSession(x) : x \in db.sessions })
                fresh_e == NumberedEvents(
                               fresh_s, { StripEvent(e) : e \in db.events })
            IN  /\ db'.sessions = fresh_s
                /\ db'.events = fresh_e
                /\ NumberedSessions(db'.sessions) = db'.sessions
                /\ NumberedEvents(db'.sessions, db'.events) = db'.events
      ]_vars

(* a pass that starts from a store holding both stale and unset counters *)
C5_Witness ==
    /\ pc = "numbering_events"
    /\ \E e \in db.events : e.event_number = None
    /\ \E e \in db.events : e.event_number # None
    /\ \E x, y \in db.sessions :
           x.session_number < y.session_number /\ x.total_sessions = 3

----------------------------------------------------------------------------
(* Properties of the row normalizer and the classifiers, checked under
   SpecBlock: the store after load_from_json has returned, against the one
   row of the file *)

Loaded ==
    pc = "idle" /\ input # <<>>

RawLines ==
    Split(input[1].SessionDescription, NL)

HasSentinel ==
    RawLines[1] = sNotTicketed

SentinelLines ==
    IF HasSentinel THEN 1 ELSE 0

LinesLeft ==
    Len(RawLines) - SentinelLines

(* C6: the N events of a stored session have order_in_session exactly 1..N,
   in description-line order, and total_in_session = N, where N is the number
   of description lines left after stripping a leading "Not Ticketed". *)
C6_OrderInSession ==
    Loaded =>
        /\ db.sessions # {}
        /\ \A x \in db.sessions :
               LET E == EventsOfSession(x.code)
                   N == Cardinality(E)
               IN  /\ N = LinesLeft
                   /\ { e.order_in_session : e \in E } = 1..N
                   /\ \A e \in E :
                          /\ e.total_in_session = N
                          /\ e.order_in_session \in 1..N
                          /\ e.description
                                 = RawLines[e.order_in_session + SentinelLines]

C6_Witness ==
    /\ Loaded
    /\ HasSentinel
    /\ \E e \in db.events : e.order_in_session = 3 /\ e.total_in_session = 3
    /\ \A x \in db.sessions : Cardinality(EventsOfSession(x.code)) = 3

(* C7: a first line "Not Ticketed" followed by k lines gives one session
   with ticketed = false and k events, none of them made from the sentinel
   line; any other first line gives ticketed = true and one event per line,
   the first included.  Events carry no ticketed flag. *)
C7_NotTicketedSentinel ==
    Loaded =>
        /\ Cardinality(db.sessions) = 1
        /\ \A x \in db.sessions : x.ticketed = ~HasSentinel
        /\ \A e \in db.events : "ticketed" \notin DOMAIN e
        /\ HasSentinel =>
               /\ Cardinality(db.events) = Len(RawLines) - 1
               /\ \A i \in 2..Len(RawLines) :
                      \E e \in db.events :
                          /\ e.order_in_session = i - 1
                          /\ e.description = RawLines[i]
        /\ ~HasSentinel =>
               /\ Cardinality(db.events) = Len(RawLines)
               /\ \A i \in 1..Len(RawLines) :
                      \E e \in db.events :
                          /\ e.order_in_session = i
                          /\ e.description = RawLines[i]

C7_Witness ==
    /\ Loaded
    /\ HasSentinel
    /\ Cardinality(db.events) = 2
    /\ \E x \in db.sessions : ~x.ticketed

(* C8: when one line is left after sentinel stripping, the event's type is
   the row's Session Type with each newline replaced by a space, whatever
   the line says. *)
C8_SingleLineTakesSessionType ==
    (Loaded /\ LinesLeft = 1) =>
        \A e \in db.events :
            LET cell == input[1].SessionType
            IN  /\ Len(e.type) = Len(cell)
                /\ \A i \in 1..Len(cell) :
                       e.type[i] = (IF cell[i] = NL THEN SP ELSE cell[i])

C8_Witness ==
    /\ Loaded
    /\ LinesLeft = 1
    /\ input[1].SessionType = sPreliminary
    /\ \E e \in db.events :
           /\ Contains(sFinal, e.description)
           /\ ~Contains(sFinalB, e.description)
           /\ e.type = sPreliminary

NamesFinalBCD(line) ==
    Contains(sFinalB, line) \/ Contains(sFinalC, line) \/ Contains(sFinalD, line)

(* C9, as claimed: in a description block of more than one line, every line
   containing "Final B", "Final C" or "Final D" is typed Preliminary. *)
C9_FinalBCDInMultiLineBlock ==
    (Loaded /\ Len(RawLines) > 1) =>
        \A e \in db.events :
            NamesFinalBCD(e.description) => e.type = sPreliminary

(* C9, amended: in a description block with more than one line left after
   sentinel stripping, every line containing "Final B", "Final C" or
   "Final D" is typed Preliminary, never Final, whatever else it contains. *)
C9_FinalBCDAfterStripping ==
    (Loaded /\ LinesLeft > 1) =>
        \A e \in db.events :
            NamesFinalBCD(e.description) =>
                e.type = sPreliminary /\ e.type # sFinal

C9_Witness ==
    /\ Loaded
    /\ LinesLeft > 1
    /\ HasSentinel
    /\ \E e \in db.events :
           /\ Contains(sFinalC, e.description)
           /\ Contains(sGoldMedal, e.description)
           /\ e.type = sPreliminary

(* the precedence of the sex rules, without the closing example *)
SexPrecedence(e) ==
    LET line   == e.description
        andor  == Contains(sAndOr, line)
        or     == Contains(sOr, line)
        men    == Contains(sMen, line)
        women  == Contains(sWomen, line)
        mixed  == Contains(sMixed, line)
    IN  /\ e.sex \in { "and/or", "or", "Men", "Women", "Mixed" }
        /\ andor => e.sex = "and/or"
        /\ (~andor /\ or) => e.sex = "or"
        /\ (~or /\ men /\ ~women) => e.sex = "Men"
        /\ (~or /\ women /\ ~men) => e.sex = "Women"
        /\ (~or /\ (men <=> women) /\ mixed) => e.sex = "Mixed"
        /\ (~or /\ (men <=> women) /\ ~mixed) => e.sex = "and/or"
        /\ line = <<"M","e","n","'","s"," ","S","i","n","g","l","e","s">>
               => e.sex = "Men"
        /\ line = <<"M","i","x","e","d"," ","D","o","u","b","l","e","s">>
               => e.sex = "Mixed"

(* C10, as claimed: the precedence and/or, or, Men without Women, Women
   without Men, Mixed, else and/or; and a line with both "Men" and "Women"
   but no "or" is and/or. *)
C10_SexRulesAsClaimed ==
    Loaded =>
        \A e \in db.events :
            /\ SexPrecedence(e)
            /\ ( /\ Contains(sMen, e.description)
                 /\ Contains(sWomen, e.description)
                 /\ ~Contains(sOr, e.description) ) => e.sex = "and/or"

(* C10, amended: the same precedence; a line with both "Men" and "Women"
   but no "or" is and/or only if it does not contain "Mixed", and is Mixed
   if it does. *)
C10_SexRules ==
    Loaded =>
        \A e \in db.events :
            /\ SexPrecedence(e)
            /\ ( /\ Contains(sMen, e.description)
                 /\ Contains(sWomen, e.description)
                 /\ ~Contains(sOr, e.description) ) =>
                     e.sex = (IF Contains(sMixed, e.description)
                              THEN "Mixed" ELSE "and/or")

C10_Witness ==
    /\ Loaded
    /\ \E e \in db.events :
           /\ Contains(sMen, e.description)
           /\ Contains(sWomen, e.description)
           /\ Contains(sMixed, e.description)
           /\ ~Contains(sOr, e.description)
           /\ e.sex = "Mixed"

----------------------------------------------------------------------------
(* One-row files whose Date, Start Time and End Time cells vary, loaded into
   a fresh store *)

sJuly14 ==
    <<"F","r","i","d","a","y",","," ","J","u","l","y"," ","1","4">>

sJuly15 ==
    <<"S","a","t","u","r","d","a","y",","," ","J","u","l","y"," ","1","5">>

TimeDates ==
    { sJuly14, sJuly15 }

(* days from 2028-01-01 to the two dates, counted on the calendar *)
DateOrdinal(cell) ==
    IF cell = sJuly14 THEN 195 ELSE 196

TimeStartCells ==
    { sTBD,
      <<"T","B","D","\n","(","C","T",")">>,
      <<"0","9",":","0","0">>,
      <<"0","9",":","0","0","\n","(","C","T",")">>,
      <<"2","3",":","3","0">> }

TimeEndCells ==
    { <<"1","1",":","0","0">>,
      sTBD,
      <<"0","9",":","0","0">>,
      <<"0","8",":","0","0">>,
      <<"s","o","o","n">>,
      <<>>,
      <<"1","1",":","0","0","\n","(","C","T",")">> }

TimeRows ==
    { [ MkRow(<<"A","1">>, <<"G","o","l","f">>, start,
              <<"M","e","n","'","s"," ","F","i","n","a","l">>, sFinal)
          EXCEPT !.Date = date, !.EndTime = end ] :
        date \in TimeDates, start \in TimeStartCells, end \in TimeEndCells }

InitTime ==
    /\ db = FreshStore
    /\ tx = EmptyTables
    /\ stats = EmptyStats
    /\ pc = "loading"
    /\ input \in { <<row>> : row \in TimeRows }
    /\ osm = NoCall
    /\ query = NoQuery
    /\ result = NoResult
    /\ net = NoNet

SpecTime ==
    InitTime /\ [][NextBlock]_vars

----------------------------------------------------------------------------
(* Properties of the time resolver, checked under SpecTime *)

(* line 0 of the Start Time cell is the literal "TBD" *)
StartIsTBD(row) ==
    Split(row.StartTime, NL)[1] = sTBD

(* a line after line 0 of the Start Time cell carries the "(CT)" marker *)
StartMarkedCT(row) ==
    LET lines == Split(row.StartTime, NL)
    IN  \E i \in 2..Len(lines) : Contains(sCTmark, lines[i])

(* C11: when line 0 of the Start Time cell is "TBD", the stored session
   starts at 00:00 and ends at 23:59 of the row's date in the timezone the
   Start Time cell resolves to, whatever the End Time cell holds (a time,
   "TBD", any other text, nothing) *)
C11_TbdStartIsWholeDay ==
    Loaded =>
      \A i \in 1..Len(input) :
        StartIsTBD(input[i]) =>
          \E x \in db.sessions :
            /\ x.code = input[i].SessionCode
            /\ x.starts_at = 1440 * DateOrdinal(input[i].Date)
            /\ x.ends_at = 1440 * DateOrdinal(input[i].Date) + 23 * 60 + 59
            /\ x.timezone = IF StartMarkedCT(input[i]) THEN CT ELSE PT

(* a "TBD" start marked "(CT)" with an End Time cell that is no clock time
   has been stored as a whole-day session *)
C11_Witness ==
    /\ Loaded
    /\ StartIsTBD(input[1])
    /\ StartMarkedCT(input[1])
    /\ input[1].EndTime = <<"s","o","o","n">>
    /\ \E x \in db.sessions :
         x.timezone = CT /\ x.ends_at - x.starts_at = 23 * 60 + 59

(* C12: every stored Session has ends_at > starts_at, the rows with a clock
   Start Time and an End Time cell that is "TBD", equal to the start or
   earlier than the start included *)
C12_EndsAfterStart ==
    \A x \in db.sessions : x.ends_at > x.starts_at

----------------------------------------------------------------------------
(* Files of several rows whose dimension names repeat, with rows that do
   not parse among them, loaded into a fresh store *)

sWaterPoloNL ==
    <<"W","a","t","e","r","\n","P","o","l","o">>

sWaterPolo ==
    <<"W","a","t","e","r"," ","P","o","l","o">>

sGolf ==
    <<"G","o","l","f">>

sNineCT ==
    <<"0","9",":","0","0","\n","(","C","T",")">>

sNine ==
    <<"0","9",":","0","0">>

sSoon ==
    <<"s","o","o","n">>

sSomeday ==
    <<"s","o","m","e","d","a","y">>

sOneEvent ==
    <<"M","e","n","'","s"," ","F","i","n","a","l">>

sTwoEvents ==
    <<"N","o","t"," ","T","i","c","k","e","t","e","d","\n","H","e","a","t","s","\n","W","o","m","e","n","'","s"," ","F","i","n","a","l">>

(* a row without its Session Code: venue, zone, start cell, sport, day *)
DimBody(venue, zone, start, sport, day) ==
    [ MkRow(<<>>, sport, start,
            IF sport = sGolf THEN sOneEvent ELSE sTwoEvents, sFinal)
        EXCEPT !.Venue = venue, !.Zone = zone, !.GamesDay = day ]

GoodBodies ==
    { DimBody("Belmont Shore", "Long Beach", sNine, sGolf, <<"1">>),
      DimBody("Belmont Shore", "Long Beach", sNine, sWaterPoloNL, <<"1">>),
      DimBody("Belmont Shore", "OKC", sNineCT, sGolf, <<"1">>),
      DimBody("Belmont Shore", "Long Beach", sNineCT, sGolf, <<"2">>),
      DimBody("OKC Softball Park", "OKC", sNineCT, sWaterPolo, <<"2">>) }

GoodBody ==
    DimBody("Belmont Shore", "Long Beach", sNine, sGolf, <<"1">>)

(* the row as a JSON object that has no "Venue" key *)
WithoutVenue(row) ==
    [ k \in (DOMAIN row) \ {"Venue"} |-> row[k] ]

BadBodies ==
    { [GoodBody EXCEPT !.Date = sSomeday],
      [GoodBody EXCEPT !.StartTime = sSoon],
      [GoodBody EXCEPT !.EndTime = sSoon],
      WithoutVenue(GoodBody) }

DimBodies ==
    GoodBodies \cup BadBodies

(* most rows in a file *)
MaxFileRows ==
    2

CodeAt ==
    << <<"A","1">>, <<"A","2">>, <<"A","3">>, <<"A","4">> >>

(* files of 1..MaxFileRows rows, the i-th row with the i-th Session Code *)
DimFiles ==
    UNION { { [ i \in 1..n |-> [ b[i] EXCEPT !.SessionCode = CodeAt[i] ] ] :
                b \in [ 1..n -> DimBodies ] } :
            n \in 1..MaxFileRows }

InitDims ==
    /\ db = FreshStore
    /\ tx = EmptyTables
    /\ stats = EmptyStats
    /\ pc = "loading"
    /\ input \in DimFiles
    /\ osm = NoCall
    /\ query = NoQuery
    /\ result = NoResult
    /\ net = NoNet

SpecDims ==
    InitDims /\ [][NextBlock]_vars

----------------------------------------------------------------------------
(* Properties of the ingest transaction and of the dimension tables, checked
   under SpecDims *)

(* the row lacks a key, or its Date, Start Time or End Time is no date or
   clock time; told from the cell contents of the rows built above *)
Malformed(row) ==
    \/ ~(RowFields \subseteq DOMAIN row)
    \/ row.Date = sSomeday
    \/ row.StartTime = sSoon
    \/ row.EndTime = sSoon

Rows ==
    { input[i] : i \in 1..Len(input) }

(* C13: ingest is all-or-nothing.  A file with a row that does not parse or
   lacks a required field makes load_from_json raise: the call never reaches
   its commit or the numbering pass, no Session is made up for the row, and
   the committed store holds nothing written by the call, the rows before
   the bad one included.  In every committed state each Event's code is the
   code of a stored Session. *)
C13_AllOrNothing ==
    /\ (\E row \in Rows : Malformed(row)) =>
         /\ db = FreshStore
         /\ pc \in { "loading", "idle" }
    /\ \A e \in db.events : HasSession(db.sessions, e.code)
    /\ db # FreshStore =>
         \A row \in Rows : HasSession(db.sessions, row.SessionCode)

(* the call has raised on the second row, after a first row that parsed *)
C13_Witness ==
    /\ pc = "idle"
    /\ Len(input) = 2
    /\ ~Malformed(input[1])
    /\ Malformed(input[2])
    /\ db = FreshStore
    /\ tx = EmptyTables

(* the natural keys the rows carry *)
SportKey(cell) ==
    IF cell = sWaterPoloNL THEN sWaterPolo ELSE cell

DayKey(cell) ==
    IF cell = <<"1">> THEN 1 ELSE 2

EventLines(row) ==
    IF row.SessionDescription = sOneEvent THEN 1 ELSE 2

RECURSIVE TotalEventLines(_)
TotalEventLines(rows) ==
    IF rows = <<>> THEN 0
    ELSE EventLines(rows[1]) + TotalEventLines(Tail(rows))

(* the load of the file has committed *)
LoadCommitted ==
    /\ input # <<>>
    /\ \/ pc \in { "numbering_sessions", "numbering_events" }
       \/ pc = "idle" /\ db # FreshStore

(* C14: after a load, the store holds exactly one Zone, Venue, Sport and
   Day per distinct natural key of the rows and one link per (sport, venue)
   pair of the rows, each link with is_primary false; the counts the call
   returns for days, zones, venues and sports are the numbers of distinct
   keys, sessions is the number of rows and events the number of event
   lines. *)
C14_OneEntityPerKey ==
    LoadCommitted =>
      /\ db.zones = { row.Zone : row \in Rows }
      /\ { v.venue : v \in db.venues } = { row.Venue : row \in Rows }
      /\ Cardinality(db.venues) = Cardinality({ row.Venue : row \in Rows })
      /\ db.sports = { SportKey(row.Sport) : row \in Rows }
      /\ db.days = { DayKey(row.GamesDay) : row \in Rows }
      /\ { <<l.sport, l.venue>> : l \in db.links }
           = { <<SportKey(row.Sport), row.Venue>> : row \in Rows }
      /\ Cardinality(db.links)
           = Cardinality({ <<SportKey(row.Sport), row.Venue>> : row \in Rows })
      /\ \A l \in db.links : l.is_primary = FALSE
      /\ pc # "idle" =>
           /\ Cardinality(stats.days) = Cardinality(db.days)
           /\ Cardinality(stats.zones) = Cardinality(db.zones)
           /\ Cardinality(stats.venues) = Cardinality(db.venues)
           /\ Cardinality(stats.sports) = Cardinality(db.sports)
           /\ stats.sessions = Len(input)
           /\ stats.events = TotalEventLines(input)

(* two rows with the same venue, the same sport up to the newline, and two
   zones have been loaded: one venue, one sport, one link, two zones *)
C14_Witness ==
    /\ pc = "numbering_events"
    /\ Len(input) = 2
    /\ input[1].Venue = input[2].Venue
    /\ input[1].Zone # input[2].Zone
    /\ Cardinality(db.venues) = 1
    /\ Cardinality(db.zones) = 2
    /\ Cardinality(db.links) = 1
    /\ stats.sessions = 2

(* index of the first row naming the venue *)
FirstRowOf(venue) ==
    CHOOSE i \in 1..Len(input) :
      /\ input[i].Venue = venue
      /\ \A j \in 1..(i - 1) : input[j].Venue # venue

(* C15: a Venue's zone and in_okc are those of the first row naming the
   venue, in_okc being true exactly when that row resolved to Central time;
   later rows for the venue, with another Zone or another timezone marker,
   leave them unchanged. *)
C15_VenueFixedByFirstRow ==
    LoadCommitted =>
      \A v \in db.venues :
        LET first == input[FirstRowOf(v.venue)]
        IN  /\ v.zone = first.Zone
            /\ v.in_okc = StartMarkedCT(first)

(* a Pacific row in one zone, then a Central row in another zone for the
   same venue: the venue keeps the first zone and in_okc false *)
C15_Witness ==
    /\ LoadCommitted
    /\ Len(input) = 2
    /\ input[1].Venue = input[2].Venue
    /\ input[1].Zone # input[2].Zone
    /\ ~StartMarkedCT(input[1])
    /\ StartMarkedCT(input[2])
    /\ \E v \in db.venues :
         v.venue = input[1].Venue /\ v.zone = input[1].Zone /\ ~v.in_okc

----------------------------------------------------------------------------
(* Venue enrichment: Database.load_osm_venues *)

(* item.get(key) for the text fields name, status and address: the value,
   or None when the key is absent *)
ItemGet(item, key) ==
    IF key \in DOMAIN item THEN item[key] ELSE NullText

(* item.get("lat_lng", {}).get(key) *)
LatLngGet(item, key) ==
    IF "lat_lng" \in DOMAIN item /\ key \in DOMAIN item.lat_lng
    THEN item.lat_lng[key]
    ELSE None

(* the Venue rows as the open ORM session sees them: objects it has modified
   shadow the stored rows *)
SessionVenues(d, t) ==
    { v \in d.venues : ~\E w \in t.venues : w.venue = v.venue } \cup t.venues

(* variant: only "unlocatable" is a skip status *)
Classify_NotFoundStatusKept(item, venues) ==
    IF \/ ItemGet(item, "status") = "unlocatable"
       \/ ItemGet(item, "name") \in { NullText, "" }
    THEN "skipped"
    ELSE IF ~\E v \in venues : v.venue = ItemGet(item, "name")
    THEN "not_found"
    ELSE "updated"

(* variant: the existence test comes before the skip test *)
Classify_ExistenceFirst(item, venues) ==
    IF ~\E v \in venues : v.venue = ItemGet(item, "name")
    THEN "not_found"
    ELSE IF \/ ItemGet(item, "status") \in { "unlocatable", "not_found" }
            \/ ItemGet(item, "name") \in { NullText, "" }
    THEN "skipped"
    ELSE "updated"

(* the branch one result takes: the skip test, then s.get(Venue, name) *)
Classify(item, venues) ==
    IF \/ ItemGet(item, "status") \in { "unlocatable", "not_found" }
       \/ ItemGet(item, "name") \in { NullText, "" }
    THEN "skipped"
    ELSE IF ~\E v \in venues : v.venue = ItemGet(item, "name")
    THEN "not_found"
    ELSE "updated"

(* variant: a null value of the result does not replace a stored value *)
Enriched_NullsIgnored(v, item) ==
    [ v EXCEPT !.address   = IF ItemGet(item, "address") = NullText THEN @
                             ELSE ItemGet(item, "address"),
               !.latitude  = IF LatLngGet(item, "lat") = None THEN @
                             ELSE LatLngGet(item, "lat"),
               !.longitude = IF LatLngGet(item, "lng") = None THEN @
                             ELSE LatLngGet(item, "lng") ]

(* venue.address = address; venue.latitude = lat; venue.longitude = lng *)
Enriched(v, item) ==
    [ v EXCEPT !.address   = ItemGet(item, "address"),
               !.latitude  = LatLngGet(item, "lat"),
               !.longitude = LatLngGet(item, "lng") ]

(* most results in a venues_osm.json file *)
MaxResults ==
    2

(* most load_osm_venues calls in a run *)
MaxOsmCalls ==
    2

Located ==
    [ lat |-> 34, lng |-> -118 ]

Unlocated ==
    [ lat |-> None, lng |-> None ]

OsmItems ==
    { [ name |-> "Belmont Shore", status |-> "ok",
        address |-> "Ocean Blvd", lat_lng |-> Located ],
      [ name |-> "Belmont Shore", status |-> "needs_review",
        address |-> NullText, lat_lng |-> Unlocated ],
      [ name |-> "Belmont Shore",
        address |-> "2nd St", lat_lng |-> [ lat |-> 34, lng |-> None ] ],
      [ name |-> "Belmont Shore", status |-> "ok", address |-> "2nd St" ],
      [ name |-> "OKC Softball Park", status |-> "ok",
        address |-> "Ocean Blvd", lat_lng |-> [ lat |-> 35, lng |-> -97 ] ],
      [ name |-> "Belmont Shore", status |-> "not_found",
        address |-> "2nd St", lat_lng |-> Located ],
      [ name |-> "Nowhere", status |-> "ok",
        address |-> "Ocean Blvd", lat_lng |-> Located ],
      [ name |-> "Nowhere", status |-> "unlocatable",
        address |-> NullText, lat_lng |-> Unlocated ],
      [ status |-> "ok", address |-> "Ocean Blvd", lat_lng |-> Located ],
      [ name |-> "", status |-> "ok",
        address |-> "Ocean Blvd", lat_lng |-> Located ] }

OsmFiles ==
    UNION { [ 1..n -> OsmItems ] : n \in 0..MaxResults }

(* the schedule loaded before any enrichment: one Pacific and one Central
   venue *)
OsmSchedule ==
    << MkRow(<<"A","1">>, sGolf, sNine, sOneEvent, sFinal),
       MkRow(<<"A","2">>, sGolf, sNineCT, sOneEvent, sFinal) >>

(* venues_data = json.load(f); updated = skipped = not_found = 0;
   with self.session() as s: *)
BeginOsm ==
    /\ pc = "idle"
    /\ osm.calls < MaxOsmCalls
    /\ \E data \in OsmFiles :
         osm' = [ data |-> data, i |-> 0, updated |-> 0, skipped |-> 0,
                  not_found |-> 0, calls |-> osm.calls + 1 ]
    /\ tx' = EmptyTables
    /\ result' = NoResult
    /\ pc' = "enriching"
    /\ UNCHANGED <<db, stats, input, query, net>>

(* one pass of "for item in venues_data" *)
OsmItem ==
    /\ pc = "enriching"
    /\ osm.i < Len(osm.data)
    /\ LET item   == osm.data[osm.i + 1]
           venues == SessionVenues(db, tx)
           branch == Classify(item, venues)
       IN  /\ osm' = [ osm EXCEPT
                         !.i = @ + 1,
                         !.updated = IF branch = "updated" THEN @ + 1 ELSE @,
                         !.skipped = IF branch = "skipped" THEN @ + 1 ELSE @,
                         !.not_found = IF branch = "not_found" THEN @ + 1
                                       ELSE @ ]
           /\ tx' = IF branch = "updated"
                    THEN LET venue == CHOOSE v \in venues :
                                        v.venue = ItemGet(item, "name")
                         IN  [ tx EXCEPT !.venues =
                                 { w \in @ : w.venue # venue.venue }
                                   \cup { Enriched(venue, item) } ]
                    ELSE tx
    /\ UNCHANGED <<db, stats, pc, input, query, result, net>>

(* s.commit() after the loop, and the return of the counts *)
OsmCommit ==
    /\ pc = "enriching"
    /\ osm.i = Len(osm.data)
    /\ db' = [ db EXCEPT !.venues = SessionVenues(db, tx) ]
    /\ tx' = EmptyTables
    /\ result' = [ kind |-> "counts", updated |-> osm.updated,
                   skipped |-> osm.skipped, not_found |-> osm.not_found ]
    /\ pc' = "idle"
    /\ UNCHANGED <<stats, input, osm, query, net>>

InitOsm ==
    /\ db = FreshStore
    /\ tx = EmptyTables
    /\ stats = EmptyStats
    /\ pc = "loading"
    /\ input = OsmSchedule
    /\ osm = NoCall
    /\ query = NoQuery
    /\ result = NoResult
    /\ net = NoNet

NextOsm ==
    \/ ReadInput
    \/ LoadCommit
    \/ NumberSessions
    \/ NumberEvents
    \/ BeginOsm
    \/ OsmItem
    \/ OsmCommit

SpecOsm ==
    InitOsm /\ [][NextOsm]_vars

----------------------------------------------------------------------------
(* Properties of venue enrichment, checked under SpecOsm *)

(* the result is one the claims call skipped: status not_found or
   unlocatable, or no name, or an empty name *)
SkipResult(item) ==
    \/ "status" \in DOMAIN item /\ item.status \in { "not_found", "unlocatable" }
    \/ "name" \notin DOMAIN item
    \/ item.name = ""

(* the venues of the loaded schedule *)
ScheduleVenues ==
    { input[i].Venue : i \in 1..Len(input) }

(* what enrichment may write *)
Geo(v) ==
    <<v.address, v.latitude, v.longitude>>

(* C16: load_osm_venues never adds a Venue, so the set of venue names is
   the same before and after every step of a call; and a result with status
   not_found or unlocatable, or with an absent or empty name, leaves the
   address, latitude and longitude of every Venue unchanged. *)
C16_NoVenueAddedNoneTouchedOnSkip ==
    [][ pc = "enriching" =>
          /\ { v.venue : v \in SessionVenues(db', tx') }
               = { v.venue : v \in SessionVenues(db, tx) }
          /\ { v.venue : v \in db'.venues } = { v.venue : v \in db.venues }
          /\ (osm'.i = osm.i + 1 /\ SkipResult(osm.data[osm'.i])) =>
               /\ SessionVenues(db', tx') = SessionVenues(db, tx)
               /\ db' = db ]_vars

(* a not_found result that names a stored venue and carries an address and
   coordinates has been passed over; the venue still has none *)
C16_Witness ==
    /\ pc = "enriching"
    /\ osm.i = 1
    /\ osm.calls = 1
    /\ osm.skipped = 1
    /\ ItemGet(osm.data[1], "status") = "not_found"
    /\ ItemGet(osm.data[1], "name") \in { v.venue : v \in db.venues }
    /\ ItemGet(osm.data[1], "address") # NullText
    /\ \A v \in SessionVenues(db, tx) : Geo(v) = <<NullText, None, None>>

(* how many of the first n results fall into a class *)
RECURSIVE CountOf(_, _, _)
CountOf(P(_), data, n) ==
    IF n = 0 THEN 0
    ELSE CountOf(P, data, n - 1) + (IF P(data[n]) THEN 1 ELSE 0)

AbsentResult(item) ==
    ~SkipResult(item) /\ item.name \notin ScheduleVenues

UpdateResult(item) ==
    ~SkipResult(item) /\ item.name \in ScheduleVenues

(* C17: every result is counted in exactly one of updated, skipped and
   not_found, so the three add up to the number of results; the skip test
   comes first, so a result with a skip status that names an absent venue is
   skipped, and a result without skip status that names an absent venue is
   not_found, and the call returns its counts. *)
C17_ResultsClassified ==
    /\ pc = "enriching" =>
         /\ osm.updated + osm.skipped + osm.not_found = osm.i
         /\ osm.skipped = CountOf(SkipResult, osm.data, osm.i)
         /\ osm.not_found = CountOf(AbsentResult, osm.data, osm.i)
         /\ osm.updated = CountOf(UpdateResult, osm.data, osm.i)
    /\ (pc = "idle" /\ osm.calls > 0) =>
         /\ result.kind = "counts"
         /\ result.updated + result.skipped + result.not_found = Len(osm.data)
         /\ result.skipped = CountOf(SkipResult, osm.data, Len(osm.data))
         /\ result.not_found = CountOf(AbsentResult, osm.data, Len(osm.data))

(* a call has returned after an unlocatable result and an ok result that
   both name a venue the store does not have *)
C17_Witness ==
    /\ pc = "idle"
    /\ osm.calls > 0
    /\ Len(osm.data) = 2
    /\ \A i \in 1..2 : ItemGet(osm.data[i], "name") = "Nowhere"
    /\ ItemGet(osm.data[1], "status") = "unlocatable"
    /\ ItemGet(osm.data[2], "status") = "ok"
    /\ result = [ kind |-> "counts", updated |-> 0, skipped |-> 1,
                  not_found |-> 1 ]

(* the last result of the file that updates the venue, 0 if there is none *)
LastUpdateOf(venue) ==
    LET hits == { i \in 1..Len(osm.data) :
                    UpdateResult(osm.data[i]) /\ osm.data[i].name = venue }
    IN  IF hits = {} THEN 0
        ELSE CHOOSE i \in hits : \A j \in hits : j <= i

(* C18: a result that is neither skipped nor not_found (status ok,
   needs_review or none) overwrites the Venue's address, latitude and
   longitude with its own values, nulls included; of several results for one
   venue the last in input order wins; zone, capacity and in_okc are never
   changed. *)
C18_LastResultOverwrites ==
    (pc = "idle" /\ osm.calls > 0) =>
      \A v \in db.venues :
        /\ LastUpdateOf(v.venue) # 0 =>
             LET item == osm.data[LastUpdateOf(v.venue)]
             IN  /\ v.address = item.address
                 /\ v.latitude = IF "lat_lng" \in DOMAIN item
                                 THEN item.lat_lng.lat ELSE None
                 /\ v.longitude = IF "lat_lng" \in DOMAIN item
                                  THEN item.lat_lng.lng ELSE None
        /\ v.capacity = None
        /\ \E i \in 1..Len(input) :
             /\ input[i].Venue = v.venue
             /\ v.zone = input[i].Zone
             /\ v.in_okc = StartMarkedCT(input[i])

(* in a second call an ok result gave a venue an address and coordinates
   and a later needs_review result replaced them by nulls *)
C18_Witness ==
    /\ pc = "idle"
    /\ osm.calls = 2
    /\ Len(osm.data) = 2
    /\ ItemGet(osm.data[1], "name") = "Belmont Shore"
    /\ ItemGet(osm.data[1], "status") = "ok"
    /\ ItemGet(osm.data[1], "address") # NullText
    /\ ItemGet(osm.data[2], "name") = "Belmont Shore"
    /\ ItemGet(osm.data[2], "status") = "needs_review"
    /\ ItemGet(osm.data[2], "address") = NullText
    /\ result.updated = 2
    /\ \E v \in db.venues :
         v.venue = "Belmont Shore" /\ Geo(v) = <<NullText, None, None>>

----------------------------------------------------------------------------
(* Query builders: ScheduleQuery, SessionQuery, EventQuery *)

(* SQL NULL in a computed text column *)
NullUrl ==
    [ null |-> TRUE ]

(* concat(...): the arguments in order; the function never returns NULL *)
Concat(args) ==
    [ null |-> FALSE, text |-> args ]

google_maps_url(v) ==
    IF v.latitude # None /\ v.longitude # None
    THEN Concat(<<"https://www.google.com/maps/search/?api=1&query=",
                  v.latitude, ",", v.longitude>>)
    ELSE NullUrl

waze_url(v) ==
    IF v.latitude # None /\ v.longitude # None
    THEN Concat(<<"https://waze.com/ul?ll=",
                  v.latitude, ",", v.longitude, "&navigate=yes">>)
    ELSE NullUrl

(* the venue name goes through replace(venue, ' ', '+'), kept as a pair *)
apple_maps_url(v) ==
    IF v.latitude # None /\ v.longitude # None
    THEN Concat(<<"https://maps.apple.com/?ll=",
                  v.latitude, ",", v.longitude, "&q=", "+", v.venue>>)
    ELSE NullUrl

(* variant: the test looks at the latitude only *)
osm_url_LatOnly(v) ==
    IF v.latitude # None
    THEN Concat(<<"https://www.openstreetmap.org/?mlat=",
                  v.latitude, "&mlon=", v.longitude, "&zoom=17">>)
    ELSE NullUrl

osm_url(v) ==
    IF v.latitude # None /\ v.longitude # None
    THEN Concat(<<"https://www.openstreetmap.org/?mlat=",
                  v.latitude, "&mlon=", v.longitude, "&zoom=17">>)
    ELSE NullUrl

(* FROM event JOIN session JOIN venue JOIN zone JOIN sport, each ON its
   key, LEFT OUTER JOIN event_type ON event_type.type = event.type: an event
   whose type is no row of event_type keeps its row, with a NULL rank *)
ScheduleRows(d) ==
    LET inner == { r \in [ event : d.events, session : d.sessions,
                           venue : d.venues, zone : d.zones,
                           sport : d.sports ] :
                     /\ r.session.code = r.event.code
                     /\ r.venue.venue = r.session.venue
                     /\ r.zone = r.venue.zone
                     /\ r.sport = r.session.sport }
        rank(e) == IF \E t \in d.event_types : t.type = e.type
                   THEN (CHOOSE t \in d.event_types : t.type = e.type).rank
                   ELSE None
    IN  { [ event   |-> r.event,
            session |-> r.session,
            venue   |-> r.venue,
            zone    |-> r.zone,
            sport   |-> r.sport,
            event_type_rank |-> rank(r.event) ] : r \in inner }

(* the selected columns of one joined row *)
ScheduleRecord(r) ==
    [ session_code     |-> r.event.code,
      order_in_session |-> r.event.order_in_session,
      event_sex        |-> r.event.sex,
      event_type       |-> r.event.type,
      event_type_rank  |-> r.event_type_rank,
      day              |-> r.session.day,
      starts_at        |-> r.session.starts_at,
      ticketed         |-> r.session.ticketed,
      sport            |-> r.sport,
      venue            |-> r.venue.venue,
      venue_latitude   |-> r.venue.latitude,
      venue_longitude  |-> r.venue.longitude,
      in_okc           |-> r.venue.in_okc,
      zone             |-> r.zone,
      google_maps_url  |-> google_maps_url(r.venue),
      waze_url         |-> waze_url(r.venue),
      apple_maps_url   |-> apple_maps_url(r.venue),
      osm_url          |-> osm_url(r.venue) ]

(* FROM session, with JOIN venue when by_zone has been called *)
SessionRows(d, joins) ==
    IF Len(joins) = 0
    THEN { [ session |-> s ] : s \in d.sessions }
    ELSE { r \in [ session : d.sessions, venue : d.venues ] :
             r.venue.venue = r.session.venue }

(* FROM event, with JOIN session when by_sport or by_day has been called *)
EventRows(d, joins) ==
    IF Len(joins) = 0
    THEN { [ event |-> e ] : e \in d.events }
    ELSE { r \in [ event : d.events, session : d.sessions ] :
             r.session.code = r.event.code }

(* one .where(...) criterion evaluated on a joined row *)
Holds(w, r) ==
    CASE w.on = "sport.sport"      -> r.sport = w.sport
      [] w.on = "session.sport"    -> r.session.sport = w.sport
      [] w.on = "session.day"      -> r.session.day = w.n
      [] w.on = "zone.zone"        -> r.zone = w.zone
      [] w.on = "venue.zone"       -> r.venue.zone = w.zone
      [] w.on = "session.ticketed" -> r.session.ticketed = TRUE
      [] w.on = "event.sex"        -> r.event.sex = w.sex
      [] w.on = "event.type"       -> r.event.type = w.type

(* the rows the statement selects, before LIMIT *)
Selected(q, d) ==
    LET keep(r) == \A i \in 1..Len(q.wheres) : Holds(q.wheres[i], r)
    IN  CASE q.kind = "schedule" ->
               { ScheduleRecord(r) : r \in { x \in ScheduleRows(d) : keep(x) } }
          [] q.kind = "session" ->
               { r.session : r \in { x \in SessionRows(d, q.joins) : keep(x) } }
          [] q.kind = "event" ->
               { r.event : r \in { x \in EventRows(d, q.joins) : keep(x) } }

(* LIMIT n without ORDER BY: any n of the selected rows *)
Limited(rows, n) ==
    IF n = None THEN { rows }
    ELSE { sub \in SUBSET rows :
             Cardinality(sub) = IF n < Cardinality(rows) THEN n
                                ELSE Cardinality(rows) }

(* ORDER BY over the selected columns: r comes before s.  NULL is smaller
   than every value, and None is below every rank and every order. *)
RECURSIVE OrderLess(_, _, _)
OrderLess(keys, r, s) ==
    IF keys = <<>> THEN FALSE
    ELSE \/ r[Head(keys)] < s[Head(keys)]
         \/ /\ r[Head(keys)] = s[Head(keys)]
            /\ OrderLess(Tail(keys), r, s)

(* the lists in which the database may return the rows under ORDER BY keys:
   rows that tie on every key come in any order *)
RECURSIVE SortedLists(_, _)
SortedLists(rows, keys) ==
    IF rows = {} THEN { <<>> }
    ELSE UNION { { <<m>> \o l : l \in SortedLists(rows \ {m}, keys) } :
                 m \in { x \in rows :
                           \A y \in rows : ~OrderLess(keys, y, x) } }

(* LIMIT n after ORDER BY: the first n rows of the list *)
LimitedList(list, n) ==
    IF n = None \/ n >= Len(list) THEN list ELSE SubSeq(list, 1, n)

(* the statement names a table twice in its FROM clause: every .join(...)
   call adds a JOIN, and the database rejects the columns of a table joined
   twice without alias as ambiguous *)
JoinedTwice(q) ==
    \E i, j \in 1..Len(q.joins) : i < j /\ q.joins[i] = q.joins[j]

(* most filter calls on one builder *)
MaxFilters ==
    2

(* arguments of limit() *)
Limits ==
    { 1 }

ScheduleCalls ==
    { [ method |-> "by_sport", sport |-> sGolf ],
      [ method |-> "by_day", n |-> 2 ],
      [ method |-> "by_zone", zone |-> "OKC" ],
      [ method |-> "by_sex", sex |-> "Men" ],
      [ method |-> "ticketed" ] }

SessionCalls ==
    { [ method |-> "by_sport", sport |-> sGolf ],
      [ method |-> "by_day", n |-> 2 ],
      [ method |-> "by_zone", zone |-> "OKC" ],
      [ method |-> "by_zone", zone |-> "Long Beach" ],
      [ method |-> "ticketed" ] }

EventCalls ==
    { [ method |-> "by_sport", sport |-> sGolf ],
      [ method |-> "by_day", n |-> 1 ],
      [ method |-> "by_day", n |-> 2 ],
      [ method |-> "by_sex", sex |-> "Men" ],
      [ method |-> "by_type", type |-> sFinal ] }

(* ScheduleQuery.by_sport, by_day, by_zone, by_sex, ticketed *)
ScheduleApply(q, call) ==
    [ q EXCEPT !.wheres = Append(@,
        CASE call.method = "by_sport" ->
               [ on |-> "sport.sport", sport |-> call.sport ]
          [] call.method = "by_day" ->
               [ on |-> "session.day", n |-> call.n ]
          [] call.method = "by_zone" ->
               [ on |-> "zone.zone", zone |-> call.zone ]
          [] call.method = "by_sex" ->
               [ on |-> "event.sex", sex |-> call.sex ]
          [] call.method = "ticketed" ->
               [ on |-> "session.ticketed" ]) ]

(* SessionQuery.by_sport, by_day, by_zone, ticketed; by_zone is
   self._query.join(Venue).where(Venue.zone == zone) *)
SessionApply(q, call) ==
    [ q EXCEPT
        !.joins  = IF call.method = "by_zone" THEN Append(@, "venue") ELSE @,
        !.wheres = Append(@,
          CASE call.method = "by_sport" ->
                 [ on |-> "session.sport", sport |-> call.sport ]
            [] call.method = "by_day" ->
                 [ on |-> "session.day", n |-> call.n ]
            [] call.method = "by_zone" ->
                 [ on |-> "venue.zone", zone |-> call.zone ]
            [] call.method = "ticketed" ->
                 [ on |-> "session.ticketed" ]) ]

(* EventQuery.by_sex, by_type, by_sport, by_day; the last two are
   self._query.join(Session).where(...) *)
EventApply(q, call) ==
    [ q EXCEPT
        !.joins  = IF call.method \in { "by_sport", "by_day" }
                   THEN Append(@, "session") ELSE @,
        !.wheres = Append(@,
          CASE call.method = "by_sport" ->
                 [ on |-> "session.sport", sport |-> call.sport ]
            [] call.method = "by_day" ->
                 [ on |-> "session.day", n |-> call.n ]
            [] call.method = "by_sex" ->
                 [ on |-> "event.sex", sex |-> call.sex ]
            [] call.method = "by_type" ->
                 [ on |-> "event.type", type |-> call.type ]) ]

(* ScheduleQuery(s), SessionQuery(s) or EventQuery(s) *)
NewQuery ==
    /\ pc = "idle"
    /\ query.kind = "none"
    /\ \E kind \in { "schedule", "session", "event" } :
         query' = [ kind |-> kind, wheres |-> <<>>, joins |-> <<>>,
                    order_by |-> <<>>, limit |-> None ]
    /\ UNCHANGED <<db, tx, stats, pc, input, osm, result, net>>

ScheduleFilter ==
    /\ query.kind = "schedule"
    /\ result.kind = "none"
    /\ Len(query.wheres) < MaxFilters
    /\ \E call \in ScheduleCalls : query' = ScheduleApply(query, call)
    /\ UNCHANGED <<db, tx, stats, pc, input, osm, result, net>>

SessionFilter ==
    /\ query.kind = "session"
    /\ result.kind = "none"
    /\ Len(query.wheres) < MaxFilters
    /\ \E call \in SessionCalls : query' = SessionApply(query, call)
    /\ UNCHANGED <<db, tx, stats, pc, input, osm, result, net>>

EventFilter ==
    /\ query.kind = "event"
    /\ result.kind = "none"
    /\ Len(query.wheres) < MaxFilters
    /\ \E call \in EventCalls : query' = EventApply(query, call)
    /\ UNCHANGED <<db, tx, stats, pc, input, osm, result, net>>

(* ScheduleQuery.order_by_event_type: order_by(EventType.rank,
   Session.starts_at, Event.order_in_session) *)
order_by_event_type(q) ==
    [ q EXCEPT !.order_by =
        @ \o <<"event_type_rank", "starts_at", "order_in_session">> ]

(* a second call appends the same three columns after the first three and
   orders nothing further, so one call is enough *)
OrderByEventType ==
    /\ query.kind = "schedule"
    /\ result.kind = "none"
    /\ query.order_by = <<>>
    /\ query' = order_by_event_type(query)
    /\ UNCHANGED <<db, tx, stats, pc, input, osm, result, net>>

(* limit(n) of any of the three builders *)
Limit ==
    /\ query.kind # "none"
    /\ result.kind = "none"
    /\ \E n \in Limits : query' = [ query EXCEPT !.limit = n ]
    /\ UNCHANGED <<db, tx, stats, pc, input, osm, result, net>>

(* fetch(): the statement is executed and its rows are returned as a list;
   the list is kept when the statement has an ORDER BY, without one its order
   is whatever the database chooses and only the set of rows is kept.
   It raises when a table is joined
   twice, and for ScheduleQuery when the SQLite library of the build has no
   concat() function (added in SQLite 3.44). *)
Fetch ==
    /\ query.kind # "none"
    /\ result.kind = "none"
    /\ \E has_concat \in BOOLEAN :
         IF JoinedTwice(query) \/ (query.kind = "schedule" /\ ~has_concat)
         THEN result' = [ kind |-> "raised" ]
         ELSE IF query.order_by = <<>>
              THEN \E rows \in Limited(Selected(query, db), query.limit) :
                     result' = [ kind |-> "rows", rows |-> rows,
                                 list |-> <<>> ]
              ELSE \E l \in SortedLists(Selected(query, db), query.order_by) :
                     LET top == LimitedList(l, query.limit)
                     IN  result' =
                           [ kind |-> "rows",
                             rows |-> { top[i] : i \in 1..Len(top) },
                             list |-> top ]
    /\ UNCHANGED <<db, tx, stats, pc, input, osm, query, net>>

(* the schedule the queries run on: two sports, two days, a Pacific and a
   Central venue, one session that is not ticketed *)
QuerySchedule ==
    << MkRow(<<"A","1">>, sGolf, sNine, sOneEvent, sFinal),
       [ MkRow(<<"A","2">>, sWaterPoloNL, sNineCT, sTwoEvents, sFinal)
           EXCEPT !.GamesDay = <<"2">> ],
       [ MkRow(<<"A","3">>, sGolf, <<"1","0",":","0","0">>, sOneEvent, sFinal)
           EXCEPT !.GamesDay = <<"2">> ] >>

(* the store after load_from_json of rows with distinct Session Codes whose
   venues keep one zone and one timezone, numbering pass included *)
LoadedStore(rows) ==
    LET parsed   == { ParseRow(rows[i]) : i \in 1..Len(rows) }
        sessions == NumberedSessions({ StoreSession(p.session) : p \in parsed })
    IN  [ zones    |-> { p.zone : p \in parsed },
          venues   |-> { [ venue     |-> p.venue,
                           zone      |-> p.zone,
                           address   |-> NullText,
                           capacity  |-> None,
                           latitude  |-> None,
                           longitude |-> None,
                           in_okc    |-> p.is_ct ] : p \in parsed },
          sports   |-> { p.sport : p \in parsed },
          days     |-> { p.day : p \in parsed },
          links    |-> { [ sport |-> p.sport, venue |-> p.venue,
                           is_primary |-> FALSE ] : p \in parsed },
          sessions |-> sessions,
          events   |-> NumberedEvents(sessions,
                                      UNION { p.events : p \in parsed }),
          event_types |-> FreshStore.event_types ]

(* what load_osm_venues can have made of a venue: nothing, or the values of
   one of the results that update it *)
GeoChoices(v) ==
    { v } \cup { Enriched(v, item) :
                   item \in { x \in OsmItems : Classify(x, {v}) = "updated" } }

(* the loaded store after any enrichment of its venues *)
QueryStores ==
    LET base == LoadedStore(QuerySchedule)
        all  == UNION { GeoChoices(v) : v \in base.venues }
    IN  { [ base EXCEPT !.venues = { g[v] : v \in base.venues } ] :
            g \in { f \in [ base.venues -> all ] :
                      \A v \in base.venues : f[v] \in GeoChoices(v) } }

InitQuery ==
    /\ db \in QueryStores
    /\ tx = EmptyTables
    /\ stats = EmptyStats
    /\ pc = "idle"
    /\ input = QuerySchedule
    /\ osm = NoCall
    /\ query = NoQuery
    /\ result = NoResult
    /\ net = NoNet

NextQuery ==
    \/ NewQuery
    \/ ScheduleFilter
    \/ SessionFilter
    \/ EventFilter
    \/ OrderByEventType
    \/ Limit
    \/ Fetch

SpecQuery ==
    InitQuery /\ [][NextQuery]_vars

----------------------------------------------------------------------------
(* Properties of the query builders, checked under SpecQuery *)

MapUrls(r) ==
    { r.google_maps_url, r.waze_url, r.apple_maps_url, r.osm_url }

(* C19: in every record ScheduleQuery returns, the four map URLs are all
   non-null or all null, and they are non-null exactly when the venue's
   latitude and longitude are both non-null; one coordinate alone gives four
   nulls. *)
C19_MapUrlsAllOrNone ==
    (query.kind = "schedule" /\ result.kind = "rows") =>
      \A r \in result.rows :
        IF r.venue_latitude # None /\ r.venue_longitude # None
        THEN \A u \in MapUrls(r) : ~u.null
        ELSE \A u \in MapUrls(r) : u.null

(* a fetch has returned a record of a venue with both coordinates and a
   record of a venue with a latitude and no longitude *)
C19_Witness ==
    /\ query.kind = "schedule"
    /\ result.kind = "rows"
    /\ \E r \in result.rows :
         /\ r.venue_latitude # None /\ r.venue_longitude # None
         /\ \A u \in MapUrls(r) : ~u.null
    /\ \E r \in result.rows :
         /\ r.venue_latitude # None /\ r.venue_longitude = None
         /\ \A u \in MapUrls(r) : u.null

(* every table joined to the builder's FROM table, each row once *)
FullRows(kind) ==
    CASE kind = "schedule" -> ScheduleRows(db)
      [] kind = "session"  -> SessionRows(db, <<"venue">>)
      [] kind = "event"    -> EventRows(db, <<"session">>)

RecordOf(kind, r) ==
    CASE kind = "schedule" -> ScheduleRecord(r)
      [] kind = "session"  -> r.session
      [] kind = "event"    -> r.event

(* the records that satisfy every predicate of a set of criteria *)
Satisfying(kind, criteria) ==
    { RecordOf(kind, r) :
        r \in { x \in FullRows(kind) : \A w \in criteria : Holds(w, x) } }

Criteria ==
    { query.wheres[i] : i \in 1..Len(query.wheres) }

(* C20: filters compose by AND and commute.  For any filter calls on a
   ScheduleQuery, SessionQuery or EventQuery, in any order, fetch succeeds
   and returns exactly the records that satisfy every applied predicate (the
   first limit() of them when a limit is set), never more than the same
   query with one filter removed; EventQuery.by_sport with by_day and
   filters after limit() included. *)
C20_FiltersComposeAndCommute ==
    result.kind # "none" =>
      /\ result.kind = "rows"
      /\ result.rows \subseteq Satisfying(query.kind, Criteria)
      /\ query.limit = None =>
           result.rows = Satisfying(query.kind, Criteria)
      /\ query.limit # None =>
           \/ Cardinality(result.rows) = query.limit
           \/ result.rows = Satisfying(query.kind, Criteria)
      /\ \A i \in 1..Len(query.wheres) :
           Cardinality(result.rows) <=
             Cardinality(Satisfying(query.kind,
               { query.wheres[j] : j \in (1..Len(query.wheres)) \ {i} }))

----------------------------------------------------------------------------
(* ScheduleQuery.order_by_event_type over a schedule with a session whose
   Session Type is no seeded label *)

sGoldMedalNL ==
    <<"G","o","l","d","\n","M","e","d","a","l">>

(* A1 has one description line, so its event takes the Session Type,
   "Gold Medal"; A2 has a "Heats" line and a "Final" line; A3 has one line
   and the Session Type "Final" *)
OrderSchedule ==
    << MkRow(<<"A","1">>, sGolf, sNine, sOneEvent, sGoldMedalNL),
       [ MkRow(<<"A","2">>, sWaterPoloNL, sNineCT, sTwoEvents, sFinal)
           EXCEPT !.GamesDay = <<"2">> ],
       [ MkRow(<<"A","3">>, sGolf, <<"1","0",":","0","0">>, sOneEvent, sFinal)
           EXCEPT !.GamesDay = <<"2">> ] >>

InitOrder ==
    /\ db = LoadedStore(OrderSchedule)
    /\ tx = EmptyTables
    /\ stats = EmptyStats
    /\ pc = "idle"
    /\ input = OrderSchedule
    /\ osm = NoCall
    /\ query = NoQuery
    /\ result = NoResult
    /\ net = NoNet

SpecOrder ==
    InitOrder /\ [][NextQuery]_vars

(* an ordered fetch has returned *)
OrderedFetch ==
    /\ query.kind = "schedule"
    /\ query.order_by # <<>>
    /\ result.kind = "rows"

(* C21: with ScheduleQuery.order_by_event_type the records come back with
   finals first: no record whose event type is not "Final" precedes a record
   whose event type is "Final", for every stored event, events whose type is
   no seeded EventType label included. *)
C21_FinalsFirst ==
    OrderedFetch =>
      \A i, j \in 1..Len(result.list) :
        (i < j /\ result.list[j].event_type = sFinal)
          => result.list[i].event_type = sFinal

----------------------------------------------------------------------------
(* What a reader of the committed store can see of the numbering pass,
   checked under SpecDims *)

(* C22: the Numbering Pass is one atomic unit towards readers.  No committed
   store state has some counter fields carrying the numbering and others
   not: no state has sessions with session_number assigned while events have
   event_number unassigned or stale, and no state has ingested sessions
   whose counters are still null. *)
C22_NumberingAtomic ==
    /\ \A x \in db.sessions : x.session_number # None
    /\ db.sessions = NumberedSessions(db.sessions)
    /\ db.events = NumberedEvents(db.sessions, db.events)

----------------------------------------------------------------------------
(* The stored round types against the seeded labels, checked under
   SpecBlock *)

SeededLabels ==
    { get_default_event_types[i].type :
        i \in 1..Len(get_default_event_types) }

(* C23: every Event and every Session stored by load_from_json has a type
   that is one of the seven seeded EventType labels, for every row input:
   unmatched text resolves to "N/A", also for single-line sessions and for
   the Session Type field itself. *)
C23_TypesAreSeededLabels ==
    /\ \A e \in db.events : e.type \in SeededLabels
    /\ \A x \in db.sessions : x.type \in SeededLabels

----------------------------------------------------------------------------
(* Database.init, Database.reset and the get_or_create calls, between loads
   of a fixed file *)

sJudo ==
    <<"J","u","d","o">>

ZoneNames ==
    { "OKC", "Long Beach", "Valley" }

VenueNames ==
    { "OKC Softball Park", "Belmont Shore", "Rose Bowl Stadium" }

SportNames ==
    { sGolf, sWaterPolo, sJudo }

(* Database.init(): create_all leaves existing tables and their rows alone *)
DbInit ==
    /\ pc \in { "created", "idle" }
    /\ db' = _seed_event_types(db)
    /\ pc' = "idle"
    /\ result' = [ kind |-> "returned", call |-> "init" ]
    /\ UNCHANGED <<tx, stats, input, osm, query, net>>

(* Database.reset(): drop_all, create_all, then the seed *)
DbReset ==
    /\ pc \in { "created", "idle" }
    /\ db' = _seed_event_types(EmptyTables)
    /\ pc' = "idle"
    /\ result' = [ kind |-> "returned", call |-> "reset" ]
    /\ UNCHANGED <<tx, stats, input, osm, query, net>>

(* Database.get_or_create_zone(zone).  The parameter is rebound to what
   s.get returns; when that is None, Zone(zone=None) is added and the commit
   raises on the NOT NULL primary key, so nothing is stored. *)
get_or_create_zone(d, zone) ==
    LET found == { z \in d.zones : z = zone }
    IN  IF found # {}
        THEN [ store |-> d,
               returns |-> [ kind |-> "zone", zone |-> CHOOSE z \in found : TRUE ] ]
        ELSE [ store |-> d, returns |-> [ kind |-> "raised" ] ]

(* Database.get_or_create_venue(venue, zone, in_okc), with the same
   rebinding of venue *)
get_or_create_venue(d, venue, zone, in_okc) ==
    LET found == { v \in d.venues : v.venue = venue }
    IN  IF found # {}
        THEN [ store |-> d,
               returns |-> [ kind |-> "venue", venue |-> CHOOSE v \in found : TRUE ] ]
        ELSE [ store |-> d, returns |-> [ kind |-> "raised" ] ]

(* Database.get_or_create_sport(sport), with the same rebinding of sport *)
get_or_create_sport(d, sport) ==
    LET found == { x \in d.sports : x = sport }
    IN  IF found # {}
        THEN [ store |-> d,
               returns |-> [ kind |-> "sport", sport |-> CHOOSE x \in found : TRUE ] ]
        ELSE [ store |-> d, returns |-> [ kind |-> "raised" ] ]

GetOrCreateZone(zone) ==
    /\ pc = "idle"
    /\ LET out == get_or_create_zone(db, zone)
       IN  db' = out.store /\ result' = out.returns
    /\ UNCHANGED <<tx, stats, pc, input, osm, query, net>>

GetOrCreateVenue(venue, zone, in_okc) ==
    /\ pc = "idle"
    /\ LET out == get_or_create_venue(db, venue, zone, in_okc)
       IN  db' = out.store /\ result' = out.returns
    /\ UNCHANGED <<tx, stats, pc, input, osm, query, net>>

GetOrCreateSport(sport) ==
    /\ pc = "idle"
    /\ LET out == get_or_create_sport(db, sport)
       IN  db' = out.store /\ result' = out.returns
    /\ UNCHANGED <<tx, stats, pc, input, osm, query, net>>

(* the files load_from_json is given *)
StoreFiles ==
    { <<QuerySchedule[1]>>, <<QuerySchedule[2]>>, <<OrderSchedule[1]>>,
      QuerySchedule, OrderSchedule }

(* Database(path) has been constructed on a new file; nothing is created
   before the first init() *)
InitStore ==
    /\ db = EmptyTables
    /\ tx = EmptyTables
    /\ stats = EmptyStats
    /\ pc = "created"
    /\ input \in StoreFiles
    /\ osm = NoCall
    /\ query = NoQuery
    /\ result = NoResult
    /\ net = NoNet

NextStore ==
    \/ DbInit
    \/ DbReset
    \/ \E zone \in ZoneNames : GetOrCreateZone(zone)
    \/ \E venue \in VenueNames, zone \in ZoneNames, in_okc \in BOOLEAN :
         GetOrCreateVenue(venue, zone, in_okc)
    \/ \E sport \in SportNames : GetOrCreateSport(sport)
    \/ BeginLoad
    \/ ReadInput
    \/ LoadCommit
    \/ NumberSessions
    \/ NumberEvents

SpecStore ==
    InitStore /\ [][NextStore]_vars

(* C24: after Database.init on an empty store, and after any further
   sequence of init and reset calls, the EventType table holds exactly the
   seven labels with ranks Final=1, Bronze=2, Semifinal=3, Quarterfinal=4,
   Repechage=5, Preliminary=6, N/A=99; and after reset the store holds no
   Day, Zone, Venue, Sport, Session, Event or sport-venue link. *)
C24_SeedAndReset ==
    /\ [](pc # "created" =>
            db.event_types =
              { [ type |-> sFinal,        rank |-> 1 ],
                [ type |-> sBronze,       rank |-> 2 ],
                [ type |-> sSemifinal,    rank |-> 3 ],
                [ type |-> sQuarterfinal, rank |-> 4 ],
                [ type |-> sRepechage,    rank |-> 5 ],
                [ type |-> sPreliminary,  rank |-> 6 ],
                [ type |-> sNA,           rank |-> 99 ] })
    /\ [][DbReset =>
            /\ db'.days = {} /\ db'.zones = {} /\ db'.venues = {}
            /\ db'.sports = {} /\ db'.sessions = {} /\ db'.events = {}
            /\ db'.links = {}]_vars

(* init has returned on a store that already holds sessions, which is a
   repeated init: the first one came before the load *)
C24_Witness ==
    /\ result = [ kind |-> "returned", call |-> "init" ]
    /\ db.sessions # {}
    /\ Cardinality(db.event_types) = 7

(* C27: get_or_create_zone(name), get_or_create_venue(name, zone, in_okc)
   and get_or_create_sport(name) are get-or-create by natural key.  If no
   entity with that key exists the call stores a new one whose key is
   exactly the name and returns it; if one exists the call returns it and
   changes nothing; so the store holds exactly one entity per distinct name
   passed. *)
C27_GetOrCreateByKey ==
    [][/\ \A zone \in ZoneNames :
            GetOrCreateZone(zone) =>
              /\ result' = [ kind |-> "zone", zone |-> zone ]
              /\ db'.zones = db.zones \cup { zone }
              /\ zone \in db.zones => db' = db
       /\ \A venue \in VenueNames, zone \in ZoneNames, in_okc \in BOOLEAN :
            GetOrCreateVenue(venue, zone, in_okc) =>
              /\ result'.kind = "venue"
              /\ result'.venue.venue = venue
              /\ result'.venue \in db'.venues
              /\ { v.venue : v \in db'.venues }
                   = { v.venue : v \in db.venues } \cup { venue }
              /\ Cardinality(db'.venues)
                   = Cardinality({ v.venue : v \in db'.venues })
              /\ (\E v \in db.venues : v.venue = venue) => db' = db
       /\ \A sport \in SportNames :
            GetOrCreateSport(sport) =>
              /\ result' = [ kind |-> "sport", sport |-> sport ]
              /\ db'.sports = db.sports \cup { sport }
              /\ sport \in db.sports => db' = db]_vars

----------------------------------------------------------------------------
(* One-row files whose description block has two lines: a line built from
   the classifier's keywords, and a line with no keyword *)

sRound ==
    <<"R","o","u","n","d">>

KeywordFrags ==
    { <<"F","i","n","a","l"," ">>,
      <<"F","i","n","a","l"," ","B"," ">>,
      <<"G","o","l","d"," ","M","e","d","a","l"," ">>,
      <<"B","r","o","n","z","e"," ">>,
      <<"S","e","m","i","f","i","n","a","l"," ">>,
      <<"Q","u","a","r","t","e","r","f","i","n","a","l"," ">>,
      <<"P","r","e","l","i","m","i","n","a","r","y"," ">>,
      <<"Q","u","a","l","i","f","i","c","a","t","i","o","n"," ">>,
      <<"H","e","a","t","s"," ">>,
      <<"P","o","o","l"," ">>,
      <<"R","e","p","e","c","h","a","g","e"," ">>,
      <<"R","o","u","n","d"," ">> }

(* most keywords in a line built from KeywordFrags *)
MaxKeywords ==
    2

KeywordLines ==
    Concats(KeywordFrags, MaxKeywords)

RuleRows ==
    { MkRow(<<"A","1">>, sGolf, sNine, desc, sFinal) :
        desc \in { Join(<<line, sRound>>) : line \in KeywordLines }
                   \cup { Join(<<sRound, line>>) : line \in KeywordLines } }

InitRules ==
    /\ db = FreshStore
    /\ tx = EmptyTables
    /\ stats = EmptyStats
    /\ pc = "loading"
    /\ input \in { <<row>> : row \in RuleRows }
    /\ osm = NoCall
    /\ query = NoQuery
    /\ result = NoResult
    /\ net = NoNet

SpecRules ==
    InitRules /\ [][NextBlock]_vars

(* a first-match rule list: each rule names the texts of which one must
   occur, the texts of which none may occur, and the type it gives *)
RECURSIVE FirstMatch(_, _)
FirstMatch(rules, line) ==
    IF rules = <<>> THEN sNA
    ELSE IF /\ \E k \in Head(rules).any : Contains(k, line)
            /\ ~\E k \in Head(rules).none : Contains(k, line)
         THEN Head(rules).type
         ELSE FirstMatch(Tail(rules), line)

RuleListAsClaimed ==
    << [ any |-> { sFinal, sGoldMedal }, none |-> { sFinalB, sFinalC, sFinalD },
         type |-> sFinal ],
       [ any |-> { sBronze }, none |-> {}, type |-> sBronze ],
       [ any |-> { sSemifinal }, none |-> {}, type |-> sSemifinal ],
       [ any |-> { sQuarterfinal }, none |-> {}, type |-> sQuarterfinal ],
       [ any |-> { sPreliminary, sQualification, sHeats, sPool }, none |-> {},
         type |-> sPreliminary ],
       [ any |-> { sRepechage }, none |-> {}, type |-> sRepechage ] >>

(* C25, as claimed: a line of a multi-line block gets the first match of the
   rule list, in which the "Final B"/"Final C"/"Final D" exclusion only
   removes the Final match and the later rules still apply. *)
C25_RuleListAsClaimed ==
    (Loaded /\ LinesLeft > 1) =>
        \A e \in db.events :
            e.type = FirstMatch(RuleListAsClaimed, e.description)

(* C25, amended: a line that contains "Final B", "Final C" or "Final D" is
   Preliminary whatever else it contains; every other line gets the first
   match of: "Final" or "Gold Medal" -> Final; "Bronze" -> Bronze;
   "Semifinal"; "Quarterfinal"; "Preliminary", "Qualification", "Heats" or
   "Pool" -> Preliminary; "Repechage" -> Repechage; otherwise N/A. *)
C25_RuleList ==
    (Loaded /\ LinesLeft > 1) =>
        \A e \in db.events :
            e.type = FirstMatch(
                       << [ any |-> { sFinalB, sFinalC, sFinalD }, none |-> {},
                            type |-> sPreliminary ] >> \o RuleListAsClaimed,
                       e.description)

(* a line with "Final B" and "Bronze" has been stored as Preliminary, next
   to a line without keyword stored as N/A *)
C25_Witness ==
    /\ Loaded
    /\ LinesLeft > 1
    /\ \E e \in db.events :
           /\ Contains(sFinalB, e.description)
           /\ Contains(sBronze, e.description)
           /\ e.type = sPreliminary
    /\ \E e \in db.events : e.description = sRound /\ e.type = sNA

----------------------------------------------------------------------------
(* The timezone of a session against the markers of both time cells,
   checked under SpecTime *)

(* a line after line 0 of the End Time cell carries the "(CT)" marker *)
EndMarkedCT(row) ==
    LET lines == Split(row.EndTime, NL)
    IN  \E i \in 2..Len(lines) : Contains(sCTmark, lines[i])

(* C26: a session is resolved to America/Chicago exactly when some line
   after line 0 of a time cell of its row contains "(CT)", and to
   America/Los_Angeles otherwise; a marker that appears only in the End Time
   cell also selects America/Chicago. *)
C26_TimezoneFromEitherCell ==
    Loaded =>
      \A x \in db.sessions :
        \A i \in 1..Len(input) :
          x.code = input[i].SessionCode =>
            x.timezone = IF StartMarkedCT(input[i]) \/ EndMarkedCT(input[i])
                         THEN CT ELSE PT

----------------------------------------------------------------------------
(* read.py: the in-memory ingest path, compared with the store after
   load_from_json under SpecBlock *)

(* Session.from_dict, lines 147-197: the events and the ticketed flag it
   builds from the Session Description and Session Type of a row.  The
   condition of the first type test is
     'Final' in line or 'Gold Medal' in line and not any(...)
   in which "and" binds before "or". *)
from_dict(d) ==
    LET split        == Split(d.SessionDescription, NL)
        not_ticketed == split[1] = sNotTicketed
        desc_lines   == IF not_ticketed THEN SubSeq(split, 2, Len(split))
                        ELSE split
        t(line) ==
            IF Contains(sAndOr, line) THEN "and/or"
            ELSE IF Contains(sOr, line) THEN "or"
            ELSE IF Contains(sMen, line) /\ ~Contains(sWomen, line) THEN "Men"
            ELSE IF Contains(sWomen, line) /\ ~Contains(sMen, line)
            THEN "Women"
            ELSE IF Contains(sMixed, line) THEN "Mixed"
            ELSE "and/or"
        ty(line) ==
            IF Len(desc_lines) = 1 THEN ReplaceNL(d.SessionType)
            ELSE IF \/ Contains(sFinal, line)
                    \/ /\ Contains(sGoldMedal, line)
                       /\ ~\E x \in {sFinalB, sFinalC, sFinalD} :
                              Contains(x, line)
            THEN sFinal
            ELSE IF Contains(sBronze, line) \/ Contains(sBronzeMedal, line)
            THEN sBronze
            ELSE IF Contains(sSemifinal, line) THEN sSemifinal
            ELSE IF Contains(sQuarterfinal, line) THEN sQuarterfinal
            ELSE IF \/ Contains(sPreliminary, line)
                    \/ Contains(sQualification, line)
                    \/ Contains(sHeats, line) \/ Contains(sPool, line)
            THEN sPreliminary
            ELSE IF Contains(sRepechage, line) THEN sRepechage
            ELSE sNA
    IN  [ events   |-> [ i \in 1..Len(desc_lines) |->
                           [ sex         |-> t(desc_lines[i]),
                             description |-> desc_lines[i],
                             type        |-> ty(desc_lines[i]),
                             order       |-> i,
                             total       |-> Len(desc_lines) ] ],
          type     |-> ReplaceNL(d.SessionType),
          ticketed |-> ~not_ticketed ]

(* C28: the two ingest paths agree on classification.  For every
   description block and Session Type, Session.from_dict and load_from_json
   produce the same number of events with the same sex, round type, order
   and total, and the same ticketed flag; multi-line blocks with a line
   containing "Final B", "Final C" or "Final D" included. *)
C28_IngestPathsAgree ==
    Loaded =>
      LET mem == from_dict(input[1])
      IN  /\ Cardinality(db.events) = Len(mem.events)
          /\ \A x \in db.sessions : x.ticketed = mem.ticketed
          /\ \A e \in db.events :
               LET m == mem.events[e.order_in_session]
               IN  /\ e.sex = m.sex
                   /\ e.type = m.type
                   /\ e.order_in_session = m.order
                   /\ e.total_in_session = m.total

----------------------------------------------------------------------------
(* osm.py: request_with_backoff and the cached nominatim_search *)

MAX_RETRIES ==
    6

(* values of the Retry-After header of a response; "" is no header *)
RetryAfterValues ==
    { "", "5", "soon", "-1", "nan", "inf" }

(* what one session.get can give: a response, requests.Timeout, or another
   requests.RequestException.  The body of a response is a JSON list, a JSON
   object, or text that is no JSON. *)
HttpOutcomes ==
    { [ kind |-> "response", status |-> 200, retry_after |-> "", body |-> b ] :
        b \in { "list A", "list B", "object", "invalid" } }
      \cup { [ kind |-> "response", status |-> 429, retry_after |-> ra,
               body |-> "object" ] : ra \in RetryAfterValues }
      \cup { [ kind |-> "response", status |-> st, retry_after |-> "",
               body |-> "object" ] : st \in { 403, 503, 404, 500 } }
      \cup { [ kind |-> "timeout" ], [ kind |-> "error" ] }

(* r.json() of a body that parses *)
Json(body) ==
    CASE body = "list A" -> [ json |-> "list", items |-> <<"place A">> ]
      [] body = "list B" -> [ json |-> "list", items |-> <<"place B", "place A">> ]
      [] body = "object" -> [ json |-> "object", items |-> <<>> ]

(* wait_s = float(retry_after) when the header is there and float accepts
   it, 2**attempt + random.random() otherwise; then time.sleep(wait_s),
   which raises ValueError for a negative value or NaN and OverflowError
   for infinity *)
BackoffSleep(retry_after) ==
    CASE retry_after = ""     -> "slept"
      [] retry_after = "soon" -> "slept"
      [] retry_after = "5"    -> "slept"
      [] retry_after = "-1"   -> "ValueError"
      [] retry_after = "nan"  -> "ValueError"
      [] retry_after = "inf"  -> "OverflowError"

(* one pass of the loop body: "return" when r.json() is returned,
   "continue" when the pass ends in a completed backoff sleep (the continue
   of line 118 or one of the three handlers), or the name of the exception
   that no handler of the try statement catches *)
Pass(outcome) ==
    IF outcome.kind \in { "timeout", "error" } THEN "continue"
    ELSE IF outcome.status \in { 403, 429, 503 }
    THEN LET slept == BackoffSleep(outcome.retry_after)
         IN  IF slept = "slept" THEN "continue"
             ELSE IF slept = "ValueError" THEN "continue"
             ELSE slept
    ELSE IF outcome.status >= 400 THEN "continue"
    ELSE IF outcome.body = "invalid" THEN "continue"
    ELSE "return"

(* results = data if isinstance(data, list) else [] *)
Results(data) ==
    IF data.json = "list" THEN data.items ELSE <<>>

(* variant: the results of a request are returned without being cached *)
Store_NotCached(cache, key, data) ==
    cache

(* _SEARCH_CACHE[key] = results *)
Store(cache, key, data) ==
    { c \in cache : c.key # key }
      \cup { [ key |-> key, results |-> Results(data) ] }

SearchQueries ==
    { "Rose Bowl Stadium, Los Angeles", "Devon Park, Oklahoma City, OK" }

SearchLimits ==
    { 1, 5 }

(* most nominatim_search calls *)
MaxSearches ==
    3

(* nominatim_search(query, limit) up to its return from the cache or to the
   first pass of the loop in request_with_backoff *)
NominatimSearch ==
    /\ pc = "idle"
    /\ net.calls < MaxSearches
    /\ \E query_ \in SearchQueries, limit \in SearchLimits :
         LET key == [ query |-> query_, limit |-> limit ]
             hit == { c \in net.cache : c.key = key }
             call == [ net EXCEPT !.calls = @ + 1, !.key = key,
                                  !.attempt = 0, !.waits = 0, !.polite = 0 ]
         IN  IF hit # {}
             THEN /\ net' = call
                  /\ pc' = "idle"
                  /\ result' = [ kind    |-> "results",
                                 results |-> (CHOOSE c \in hit : TRUE).results ]
             ELSE /\ net' = call
                  /\ pc' = "requesting"
                  /\ result' = NoResult
    /\ UNCHANGED <<db, tx, stats, input, osm, query>>

(* one pass of "for attempt in range(MAX_RETRIES)", and what follows it when
   it is the last: the return through nominatim_search, with sleep_polite
   and the cache entry, or the RuntimeError after the loop *)
HttpAttempt ==
    /\ pc = "requesting"
    /\ net.attempt < MAX_RETRIES
    /\ \E outcome \in HttpOutcomes :
         LET pass == Pass(outcome)
             sent == [ net EXCEPT !.attempt = @ + 1 ]
         IN  CASE pass = "return" ->
                    LET data == Json(outcome.body)
                    IN  /\ net' = [ sent EXCEPT
                                      !.polite = @ + 1,
                                      !.cache = Store(@, net.key, data),
                                      !.fetched = Append(@, net.key) ]
                        /\ pc' = "idle"
                        /\ result' = [ kind    |-> "results",
                                       results |-> Results(data) ]
               [] pass = "continue" ->
                    /\ net' = [ sent EXCEPT !.waits = @ + 1 ]
                    /\ IF sent.attempt < MAX_RETRIES
                       THEN pc' = "requesting" /\ result' = result
                       ELSE /\ pc' = "idle"
                            /\ result' = [ kind  |-> "raised",
                                           error |-> "RuntimeError" ]
               [] OTHER ->
                    /\ net' = sent
                    /\ pc' = "idle"
                    /\ result' = [ kind |-> "raised", error |-> pass ]
    /\ UNCHANGED <<db, tx, stats, input, osm, query>>

InitGeo ==
    /\ db = FreshStore
    /\ tx = EmptyTables
    /\ stats = EmptyStats
    /\ pc = "idle"
    /\ input = <<>>
    /\ osm = NoCall
    /\ query = NoQuery
    /\ result = NoResult
    /\ net = NoNet

NextGeo ==
    \/ NominatimSearch
    \/ HttpAttempt

SpecGeo ==
    InitGeo /\ [][NextGeo]_vars

(* C29: request_with_backoff ends after at most MAX_RETRIES = 6 HTTP
   attempts.  It returns the parsed JSON of the first attempt that has a
   non-error status and valid JSON; every failed attempt (status 403, 429 or
   503, another error status, timeout, other request exception, invalid
   JSON) is followed by a backoff wait and the next attempt; when all six
   attempts fail it raises RuntimeError and returns nothing. *)
C29_BoundedRetries ==
    /\ net.attempt <= MAX_RETRIES
    /\ pc = "requesting" =>
         /\ net.attempt < MAX_RETRIES
         /\ net.waits = net.attempt
    /\ (pc = "idle" /\ net.attempt > 0) =>
         \/ /\ result.kind = "results"
            /\ net.waits = net.attempt - 1
         \/ /\ result.kind = "raised"
            /\ result.error = "RuntimeError"
            /\ net.attempt = MAX_RETRIES
            /\ net.waits = MAX_RETRIES

(* the keys _SEARCH_CACHE holds *)
CachedKeys ==
    { c.key : c \in net.cache }

(* a nominatim_search call begins in this step *)
SearchBegins ==
    pc = "idle" /\ net'.calls = net.calls + 1

(* C30: the search cache holds only results of successful requests.  There
   is at most one successful HTTP request per distinct (query, limit) key; a
   call with a cached key makes no HTTP request and no sleep and returns the
   result the cache holds; a call that fails with RuntimeError leaves the
   cache unchanged, so a later call with its key sends requests again. *)
C30_CacheOnlySuccess ==
    /\ [](/\ \A i, j \in 1..Len(net.fetched) :
               net.fetched[i] = net.fetched[j] => i = j
          /\ CachedKeys = { net.fetched[i] : i \in 1..Len(net.fetched) }
          /\ \A c, d \in net.cache : c.key = d.key => c = d
          /\ result.kind = "raised" => net.key \notin CachedKeys)
    /\ [][/\ (SearchBegins /\ net'.key \in CachedKeys) =>
               /\ pc' = "idle"
               /\ result'.kind = "results"
               /\ \E c \in net.cache :
                    c.key = net'.key /\ c.results = result'.results
               /\ net'.attempt = 0 /\ net'.waits = 0 /\ net'.polite = 0
               /\ net'.cache = net.cache
               /\ net'.fetched = net.fetched
          /\ (SearchBegins /\ net'.key \notin CachedKeys) =>
               pc' = "requesting"
          /\ result'.kind = "raised" => net'.cache = net.cache
          /\ net'.cache # net.cache =>
               /\ pc = "requesting"
               /\ net'.attempt = net.attempt + 1
               /\ net'.polite = 1
               /\ result'.kind = "results"
               /\ net'.cache = net.cache \cup
                    { [ key |-> net.key, results |-> result'.results ] }]_vars

(* three calls have been made, one request has returned over all of them,
   and the last call, with the key of that request, was served from the
   cache without a request *)
C30_Witness ==
    /\ pc = "idle"
    /\ net.calls = 3
    /\ net.attempt = 0
    /\ result.kind = "results"
    /\ Len(net.fetched) = 1
    /\ net.key = net.fetched[1]
    /\ Cardinality(net.cache) = 1

====
